---- MODULE Spec2Model ----
(***************************************************************************)
(* A model of the CBOR writer and reader of os/lib/cbor.c (Contiki-NG).    *)
(*                                                                         *)
(* Pointers are addresses (integers), NULL is 0 and the byte at address a  *)
(* is mem[a].  A uint64_t is a tuple of 8 bytes, most significant first,   *)
(* so that the 64-bit width is kept.  size_t counters and sizes are        *)
(* naturals.  The model is the little-endian build (the #else branches of  *)
(* __BIG_ENDIAN__), which is what the native test and the nrf52840 use.    *)
(***************************************************************************)
EXTENDS Integers, Sequences, FiniteSets, TLC

(***************************************************************************)
(* Program constants.                                                      *)
(***************************************************************************)
NULL == 0

\* cbor.h: the default, which holds unless the build sets CBOR_CONF_MAX_NESTING
CBOR_MAX_NESTING == 8

CBOR_MAJOR_TYPE_NONE == -1
CBOR_MAJOR_TYPE_UNSIGNED == 0
CBOR_MAJOR_TYPE_BYTE_STRING == 64
CBOR_MAJOR_TYPE_TEXT_STRING == 96
CBOR_MAJOR_TYPE_ARRAY == 128
CBOR_MAJOR_TYPE_MAP == 160
CBOR_MAJOR_TYPE_SIMPLE == 224

CBOR_SIMPLE_VALUE_NONE == -1
CBOR_SIMPLE_VALUE_FALSE == 244
CBOR_SIMPLE_VALUE_TRUE == 245
CBOR_SIMPLE_VALUE_NULL == 246
CBOR_SIMPLE_VALUE_UNDEFINED == 247

CBOR_SIZE_NONE == -1
CBOR_SIZE_1 == 24
CBOR_SIZE_2 == 25
CBOR_SIZE_4 == 26
CBOR_SIZE_8 == 27

(***************************************************************************)
(* Bounds of the model.                                                    *)
(***************************************************************************)
\* Largest output buffer handed to cbor_init_writer in a session of any calls.
MaxBuffer == 3
\* Largest output buffer handed to cbor_init_writer in a session of typed items.
MaxSession == 7
\* Largest item count a container's counter reaches in a writer session.
MaxCount == 2
\* Most calls that change the writer in one writer session.
MaxCalls == 5
\* Longest input handed to cbor_init_reader in a reader-only session.
MaxInput == 3
\* Longest byte or text string written and read back on its own.
MaxString == 25

(***************************************************************************)
(* uint64_t as 8 bytes, most significant first.                            *)
(***************************************************************************)
Byte == 0..255

U64(n) ==
  <<0, 0, 0, 0, (n \div 16777216) % 256, (n \div 65536) % 256,
    (n \div 256) % 256, n % 256>>

ULt(a, b) ==
  \E i \in 1..8 : a[i] < b[i] /\ \A j \in 1..(i - 1) : a[j] = b[j]

ULe(a, b) == a = b \/ ULt(a, b)

\* (uint8_t)value
LowByte(v) == v[8]

\* value >>= 8
Shr8(v) == <<0>> \o SubSeq(v, 1, 7)

\* value <<= 8, modulo 2^64
Shl8(v) == SubSeq(v, 2, 8) \o <<0>>

\* value += byte, modulo 2^64
RECURSIVE AddAt(_, _, _)
AddAt(v, i, c) ==
  IF i = 0 \/ c = 0 THEN v
  ELSE AddAt([v EXCEPT ![i] = (v[i] + c) % 256], i - 1, (v[i] + c) \div 256)

AddByte(v, b) == AddAt(v, 8, b)

UINT8_MAX == U64(255)
UINT16_MAX == U64(65535)
UINT32_MAX == <<0, 0, 0, 0, 255, 255, 255, 255>>
\* size_t is 64 bits wide on the native test build
SIZE_MAX == <<255, 255, 255, 255, 255, 255, 255, 255>>

\* a | b and a & b on bytes, bit by bit
RECURSIVE BitOr(_, _, _)
BitOr(a, b, n) ==
  IF n = 0 THEN 0
  ELSE (IF a % 2 = 1 \/ b % 2 = 1 THEN 1 ELSE 0)
       + 2 * BitOr(a \div 2, b \div 2, n - 1)

RECURSIVE BitAnd(_, _, _)
BitAnd(a, b, n) ==
  IF n = 0 THEN 0
  ELSE (IF a % 2 = 1 /\ b % 2 = 1 THEN 1 ELSE 0)
       + 2 * BitAnd(a \div 2, b \div 2, n - 1)

Or8(a, b) == BitOr(a, b, 8)
And8(a, b) == BitAnd(a, b, 8)

(***************************************************************************)
(* The writer.  A writer state s is the struct cbor_writer_state_t         *)
(* (buffer, buffer_size, nesting_depth, objects) together with the bytes   *)
(* of the caller's buffer (mem) and two history fields: poisoned, set by   *)
(* every error branch, and oob, set by a store outside the buffer.         *)
(***************************************************************************)
\* the value of a byte or counter that has not been written yet
Indeterminate == 0 - 1

\* the address of the caller's output buffer
BufferAddress == NULL + 4

Levels == 0..(CBOR_MAX_NESTING - 1)

\* *addr = byte
Store(s, addr, byte) ==
  IF addr \in DOMAIN s.mem
  THEN [s EXCEPT !.mem[addr] = byte]
  ELSE [s EXCEPT !.oob = TRUE]

\* memcpy(dst, object, Len(object))
RECURSIVE memcpy(_, _, _)
memcpy(s, dst, object) ==
  IF object = <<>> THEN s
  ELSE memcpy(Store(s, dst, Head(object)), dst + 1, Tail(object))

cbor_init_writer(buffer, buffer_size) ==
  [buffer |-> buffer + buffer_size,
   buffer_size |-> buffer_size,
   nesting_depth |-> CBOR_MAX_NESTING,
   objects |-> [l \in Levels |-> Indeterminate],
   mem |-> [a \in buffer..(buffer + buffer_size - 1) |-> Indeterminate],
   poisoned |-> FALSE,
   oob |-> FALSE]

\* a bug: open containers are not looked at
cbor_stop_writer_any_depth(s) == s.buffer

cbor_stop_writer(s) ==
  IF s.nesting_depth = CBOR_MAX_NESTING THEN s.buffer ELSE NULL

\* a bug (or a feature): a poisoned writer counts nothing
increment_unless_poisoned(s) ==
  IF s.nesting_depth = CBOR_MAX_NESTING \/ s.buffer = NULL THEN s
  ELSE [s EXCEPT !.objects[s.nesting_depth] = @ + 1]

\* a bug: with nothing open the outermost slot of the stack counts
increment_at_top_level(s) ==
  IF s.nesting_depth = CBOR_MAX_NESTING
  THEN [s EXCEPT !.objects[CBOR_MAX_NESTING - 1] = @ + 1]
  ELSE [s EXCEPT !.objects[s.nesting_depth] = @ + 1]

increment(s) ==
  IF s.nesting_depth = CBOR_MAX_NESTING THEN s
  ELSE [s EXCEPT !.objects[s.nesting_depth] = @ + 1]

\* a bug: the count of free bytes is not taken down
prepend_object_keeps_size(s, object) ==
  LET object_size == Len(object) IN
  IF object_size = 0 THEN s
  ELSE IF s.buffer_size < object_size
  THEN [s EXCEPT !.buffer = NULL, !.buffer_size = 0, !.poisoned = TRUE]
  ELSE LET s1 == [s EXCEPT !.buffer = @ - object_size]
       IN memcpy(s1, s1.buffer, object)

prepend_object(s, object) ==
  LET object_size == Len(object) IN
  IF object_size = 0 THEN s
  ELSE IF s.buffer_size < object_size
  THEN [s EXCEPT !.buffer = NULL, !.buffer_size = 0, !.poisoned = TRUE]
  ELSE LET s1 == [s EXCEPT !.buffer = @ - object_size,
                           !.buffer_size = @ - object_size]
       IN memcpy(s1, s1.buffer, object)

\* a bug (or a feature): an object of no bytes is not counted
cbor_prepend_object_skips_empty(s, object) ==
  IF Len(object) = 0 THEN s ELSE increment(prepend_object(s, object))

cbor_prepend_object(s, object) == increment(prepend_object(s, object))

\* a bug: the argument's bytes are laid down most significant first, which
\* puts them on the wire least significant first
RECURSIVE CopyArgument_msb_first(_, _, _)
CopyArgument_msb_first(s, value, length_to_copy) ==
  IF length_to_copy = 0 THEN s
  ELSE LET s1 == [s EXCEPT !.buffer = @ - 1]
       IN CopyArgument_msb_first(Store(s1, s1.buffer, value[9 - length_to_copy]),
                                 value, length_to_copy - 1)

\* while(length_to_copy--) { state->buffer--; *state->buffer = value; value >>= 8; }
RECURSIVE CopyArgument(_, _, _)
CopyArgument(s, value, length_to_copy) ==
  IF length_to_copy = 0 THEN s
  ELSE LET s1 == [s EXCEPT !.buffer = @ - 1]
       IN CopyArgument(Store(s1, s1.buffer, LowByte(value)),
                       Shr8(value), length_to_copy - 1)

\* the "determine size" part of prepend_unsigned
LengthToCopy(value) ==
  IF ULt(value, U64(CBOR_SIZE_1)) THEN 0
  ELSE IF ULe(value, UINT8_MAX) THEN 1
  ELSE IF ULe(value, UINT16_MAX) THEN 2
  ELSE IF ULe(value, UINT32_MAX) THEN 4
  ELSE 8

JumpByte(value) ==
  IF ULt(value, U64(CBOR_SIZE_1)) THEN LowByte(value)
  ELSE IF ULe(value, UINT8_MAX) THEN CBOR_SIZE_1
  ELSE IF ULe(value, UINT16_MAX) THEN CBOR_SIZE_2
  ELSE IF ULe(value, UINT32_MAX) THEN CBOR_SIZE_4
  ELSE CBOR_SIZE_8

\* a bug: a byte more than the header takes is asked for
prepend_unsigned_needs_spare(s, value) ==
  LET length_to_copy == LengthToCopy(value)
      jump_byte == JumpByte(value)
  IN
  IF s.buffer_size <= length_to_copy + 1
  THEN [s EXCEPT !.buffer = NULL, !.buffer_size = 0, !.poisoned = TRUE]
  ELSE LET s1 == [s EXCEPT !.buffer_size = @ - length_to_copy]
           s2 == CopyArgument(s1, value, length_to_copy)
           s3 == [s2 EXCEPT !.buffer = @ - 1, !.buffer_size = @ - 1]
       IN Store(s3, s3.buffer, jump_byte)

\* a bug: the initial byte is left out of the size check
prepend_unsigned_forgets_initial_byte(s, value) ==
  LET length_to_copy == LengthToCopy(value)
      jump_byte == JumpByte(value)
  IN
  IF s.buffer_size < length_to_copy
  THEN [s EXCEPT !.buffer = NULL, !.buffer_size = 0, !.poisoned = TRUE]
  ELSE LET s1 == [s EXCEPT !.buffer_size = @ - length_to_copy]
           s2 == CopyArgument(s1, value, length_to_copy)
           s3 == [s2 EXCEPT !.buffer = @ - 1, !.buffer_size = @ - 1]
       IN Store(s3, s3.buffer, jump_byte)

prepend_unsigned(s, value) ==
  LET length_to_copy == LengthToCopy(value)
      jump_byte == JumpByte(value)
  IN
  IF s.buffer_size <= length_to_copy
  THEN [s EXCEPT !.buffer = NULL, !.buffer_size = 0, !.poisoned = TRUE]
  ELSE LET s1 == [s EXCEPT !.buffer_size = @ - length_to_copy]
           s2 == CopyArgument(s1, value, length_to_copy)
           s3 == [s2 EXCEPT !.buffer = @ - 1, !.buffer_size = @ - 1]
       IN Store(s3, s3.buffer, jump_byte)

cbor_prepend_unsigned(s, value) == increment(prepend_unsigned(s, value))

\* *state->buffer |= major_type
OrMajorType(s, major_type) ==
  Store(s, s.buffer, Or8(s.mem[s.buffer], major_type))

cbor_wrap_data(s, data_size) ==
  LET s1 == cbor_prepend_unsigned(s, data_size) IN
  IF s1.buffer = NULL THEN s1
  ELSE OrMajorType(s1, CBOR_MAJOR_TYPE_BYTE_STRING)

\* a bug: the header is prepended before the payload
cbor_prepend_data_header_first(s, data) ==
  prepend_object(cbor_wrap_data(s, U64(Len(data))), data)

\* a bug: the payload is counted as an item and the header as another
cbor_prepend_data_counted_twice(s, data) ==
  cbor_wrap_data(cbor_prepend_object(s, data), U64(Len(data)))

cbor_prepend_data(s, data) ==
  cbor_wrap_data(prepend_object(s, data), U64(Len(data)))

cbor_prepend_text(s, text) ==
  LET s1 == cbor_prepend_unsigned(prepend_object(s, text), U64(Len(text))) IN
  IF s1.buffer = NULL THEN s1
  ELSE OrMajorType(s1, CBOR_MAJOR_TYPE_TEXT_STRING)

\* the writer after the call; the call returns its buffer
\* a bug: a successful open hands the cursor out afresh
cbor_open_array_resets_cursor(s) ==
  IF s.nesting_depth = 0
  THEN [s EXCEPT !.buffer = NULL, !.buffer_size = 0, !.poisoned = TRUE]
  ELSE [s EXCEPT !.nesting_depth = @ - 1,
                 !.objects[s.nesting_depth - 1] = 0,
                 !.buffer = BufferAddress + s.buffer_size]

\* a bug: the last slot of the counter stack is never handed out
cbor_open_array_one_short(s) ==
  IF s.nesting_depth <= 1
  THEN [s EXCEPT !.buffer = NULL, !.buffer_size = 0, !.poisoned = TRUE]
  ELSE [s EXCEPT !.nesting_depth = @ - 1,
                 !.objects[s.nesting_depth - 1] = 0]

cbor_open_array(s) ==
  IF s.nesting_depth = 0
  THEN [s EXCEPT !.buffer = NULL, !.buffer_size = 0, !.poisoned = TRUE]
  ELSE [s EXCEPT !.nesting_depth = @ - 1,
                 !.objects[s.nesting_depth - 1] = 0]

\* a bug: the items of the closed container are counted in the one around it
CloseContainer_adds_items(s) ==
  LET s1 == [s EXCEPT !.nesting_depth = @ + 1] IN
  IF s1.nesting_depth # CBOR_MAX_NESTING
  THEN [s1 EXCEPT !.objects[s1.nesting_depth] = @ + s.objects[s.nesting_depth]]
  ELSE s1

\* if(++state->nesting_depth != CBOR_MAX_NESTING) state->objects[...]++
CloseContainer(s) ==
  LET s1 == [s EXCEPT !.nesting_depth = @ + 1] IN
  IF s1.nesting_depth # CBOR_MAX_NESTING
  THEN [s1 EXCEPT !.objects[s1.nesting_depth] = @ + 1]
  ELSE s1

\* a bug: a wrap with nothing open is let through
cbor_wrap_array_unguarded(s) ==
  IF s.nesting_depth = CBOR_MAX_NESTING
  THEN s
  ELSE LET s1 == prepend_unsigned(s, U64(s.objects[s.nesting_depth])) IN
       IF s1.buffer = NULL THEN s1
       ELSE CloseContainer(OrMajorType(s1, CBOR_MAJOR_TYPE_ARRAY))

\* the writer after the call; the call returns its buffer
cbor_wrap_array(s) ==
  IF s.nesting_depth = CBOR_MAX_NESTING
  THEN [s EXCEPT !.buffer = NULL, !.buffer_size = 0, !.poisoned = TRUE]
  ELSE LET s1 == prepend_unsigned(s, U64(s.objects[s.nesting_depth])) IN
       IF s1.buffer = NULL THEN s1
       ELSE CloseContainer(OrMajorType(s1, CBOR_MAJOR_TYPE_ARRAY))

\* a bug: a map is opened without its counter being cleared
cbor_open_map_keeps_counter(s) ==
  IF s.nesting_depth = 0
  THEN [s EXCEPT !.buffer = NULL, !.buffer_size = 0, !.poisoned = TRUE]
  ELSE [s EXCEPT !.nesting_depth = @ - 1]

cbor_open_map(s) == cbor_open_array(s)

\* a bug: the parity of the counter is not looked at
cbor_wrap_map_any_count(s) ==
  IF s.nesting_depth = CBOR_MAX_NESTING
  THEN [s EXCEPT !.buffer = NULL, !.buffer_size = 0, !.poisoned = TRUE]
  ELSE LET s1 == prepend_unsigned(s, U64(s.objects[s.nesting_depth] \div 2)) IN
       IF s1.buffer = NULL THEN s1
       ELSE CloseContainer(OrMajorType(s1, CBOR_MAJOR_TYPE_MAP))

\* a bug: the map is left open after its head is written
cbor_wrap_map_stays_open(s) ==
  IF s.nesting_depth = CBOR_MAX_NESTING
     \/ s.objects[s.nesting_depth] % 2 = 1
  THEN [s EXCEPT !.buffer = NULL, !.buffer_size = 0, !.poisoned = TRUE]
  ELSE LET s1 == prepend_unsigned(s, U64(s.objects[s.nesting_depth] \div 2)) IN
       IF s1.buffer = NULL THEN s1
       ELSE OrMajorType(s1, CBOR_MAJOR_TYPE_MAP)

cbor_wrap_map(s) ==
  IF s.nesting_depth = CBOR_MAX_NESTING
     \/ s.objects[s.nesting_depth] % 2 = 1
  THEN [s EXCEPT !.buffer = NULL, !.buffer_size = 0, !.poisoned = TRUE]
  ELSE LET s1 == prepend_unsigned(s, U64(s.objects[s.nesting_depth] \div 2)) IN
       IF s1.buffer = NULL THEN s1
       ELSE CloseContainer(OrMajorType(s1, CBOR_MAJOR_TYPE_MAP))

\* a bug: the error branch leaves the cursor as it is
prepend_simple_keeps_cursor(s, value) ==
  IF s.buffer_size = 0
  THEN [s EXCEPT !.poisoned = TRUE]
  ELSE LET s1 == [s EXCEPT !.buffer = @ - 1, !.buffer_size = @ - 1]
       IN increment(Store(s1, s1.buffer, value))

prepend_simple(s, value) ==
  IF s.buffer_size = 0
  THEN [s EXCEPT !.buffer = NULL, !.poisoned = TRUE]
  ELSE LET s1 == [s EXCEPT !.buffer = @ - 1, !.buffer_size = @ - 1]
       IN increment(Store(s1, s1.buffer, value))

cbor_prepend_null(s) == prepend_simple(s, CBOR_SIMPLE_VALUE_NULL)

cbor_prepend_undefined(s) == prepend_simple(s, CBOR_SIMPLE_VALUE_UNDEFINED)

cbor_prepend_bool(s, boolean) ==
  prepend_simple(s, IF boolean # 0 THEN CBOR_SIMPLE_VALUE_TRUE
                    ELSE CBOR_SIMPLE_VALUE_FALSE)

(***************************************************************************)
(* The reader.  A reader state r is the struct cbor_reader_state_t (cbor,  *)
(* cbor_size) and a history field oob, set by a load outside the input.    *)
(* A call yields the reader after it, its return value ret (a number or an *)
(* address) and out: the uint64_t or size_t it hands back, <<>> when it    *)
(* hands back nothing.                                                     *)
(***************************************************************************)
Nothing == <<>>

\* the value of a uint64_t known to be below 2^24
ToNat(v) == v[6] * 65536 + v[7] * 256 + v[8]

cbor_init_reader(cbor, cbor_size) ==
  [cbor |-> cbor, cbor_size |-> cbor_size, oob |-> FALSE]

\* *addr
Load(m, addr) == IF addr \in DOMAIN m THEN m[addr] ELSE Indeterminate

Touch(r, m, addr) ==
  IF addr \in DOMAIN m THEN r ELSE [r EXCEPT !.oob = TRUE]

Result(r, ret, out) ==
  [cbor |-> r.cbor, cbor_size |-> r.cbor_size, oob |-> r.oob,
   ret |-> ret, out |-> out]

ReaderOf(res) ==
  [cbor |-> res.cbor, cbor_size |-> res.cbor_size, oob |-> res.oob]

\* a bug (or a feature): a major type outside the enumeration is reported
\* as none
cbor_read_next_known_only(r, m) ==
  IF r.cbor_size = 0 THEN Result(r, CBOR_MAJOR_TYPE_NONE, Nothing)
  ELSE LET major == And8(Load(m, r.cbor), 224) IN
       Result(Touch(r, m, r.cbor),
              IF major \in {CBOR_MAJOR_TYPE_UNSIGNED, CBOR_MAJOR_TYPE_BYTE_STRING,
                            CBOR_MAJOR_TYPE_TEXT_STRING, CBOR_MAJOR_TYPE_ARRAY,
                            CBOR_MAJOR_TYPE_MAP, CBOR_MAJOR_TYPE_SIMPLE}
              THEN major ELSE CBOR_MAJOR_TYPE_NONE,
              Nothing)

\* a bug: the byte looked at is consumed
cbor_read_next_consumes(r, m) ==
  IF r.cbor_size = 0 THEN Result(r, CBOR_MAJOR_TYPE_NONE, Nothing)
  ELSE Result([Touch(r, m, r.cbor) EXCEPT !.cbor = @ + 1, !.cbor_size = @ - 1],
              And8(Load(m, r.cbor), 224), Nothing)

cbor_read_next(r, m) ==
  IF r.cbor_size = 0 THEN Result(r, CBOR_MAJOR_TYPE_NONE, Nothing)
  ELSE Result(Touch(r, m, r.cbor), And8(Load(m, r.cbor), 224), Nothing)

cbor_stop_reader(r, m) == Result(r, r.cbor, Nothing)

\* while(bytes_to_read--) { *value <<= 8; *value += *state->cbor++; }
RECURSIVE ReadArgument(_, _, _, _)
ReadArgument(r, m, value, bytes_to_read) ==
  IF bytes_to_read = 0 THEN Result(r, 0, value)
  ELSE ReadArgument([Touch(r, m, r.cbor) EXCEPT !.cbor = @ + 1], m,
                    AddByte(Shl8(value), Load(m, r.cbor)),
                    bytes_to_read - 1)

\* the switch(size) of cbor_read_unsigned; 0 stands for the default case
\* a bug: the default of the switch reads one byte
BytesToRead_default_one(size) ==
  CASE size = CBOR_SIZE_1 -> 1
    [] size = CBOR_SIZE_2 -> 2
    [] size = CBOR_SIZE_4 -> 4
    [] size = CBOR_SIZE_8 -> 8
    [] OTHER -> 1

BytesToRead(size) ==
  CASE size = CBOR_SIZE_1 -> 1
    [] size = CBOR_SIZE_2 -> 2
    [] size = CBOR_SIZE_4 -> 4
    [] size = CBOR_SIZE_8 -> 8
    [] OTHER -> 0

\* a bug (or a feature): a header that cannot be read is not consumed
cbor_read_unsigned_rewinds(r, m) ==
  IF r.cbor_size = 0 THEN Result(r, CBOR_SIZE_NONE, Nothing)
  ELSE
    LET size == And8(Load(m, r.cbor), 31)
        r1 == [Touch(r, m, r.cbor) EXCEPT !.cbor = @ + 1, !.cbor_size = @ - 1]
        bytes_to_read == BytesToRead(size)
    IN
    IF size < CBOR_SIZE_1 THEN Result(r1, CBOR_SIZE_1, U64(size))
    ELSE IF bytes_to_read = 0 THEN Result(r, CBOR_SIZE_NONE, Nothing)
    ELSE IF bytes_to_read > r1.cbor_size
    THEN Result(r, CBOR_SIZE_NONE, Nothing)
    ELSE LET r2 == [r1 EXCEPT !.cbor_size = @ - bytes_to_read]
             a == ReadArgument(r2, m, U64(0), bytes_to_read)
         IN Result(ReaderOf(a), size, a.out)

\* a bug (or a feature): an inline argument is reported as its own size class,
\* the low five bits
cbor_read_unsigned_returns_bits(r, m) ==
  IF r.cbor_size = 0 THEN Result(r, CBOR_SIZE_NONE, Nothing)
  ELSE
    LET size == And8(Load(m, r.cbor), 31)
        r1 == [Touch(r, m, r.cbor) EXCEPT !.cbor = @ + 1, !.cbor_size = @ - 1]
        bytes_to_read == BytesToRead(size)
    IN
    IF size < CBOR_SIZE_1 THEN Result(r1, size, U64(size))
    ELSE IF bytes_to_read = 0 THEN Result(r1, CBOR_SIZE_NONE, Nothing)
    ELSE IF bytes_to_read > r1.cbor_size
    THEN Result(r1, CBOR_SIZE_NONE, Nothing)
    ELSE LET r2 == [r1 EXCEPT !.cbor_size = @ - bytes_to_read]
             a == ReadArgument(r2, m, U64(0), bytes_to_read)
         IN Result(ReaderOf(a), size, a.out)

\* a bug (or a feature): an argument that a smaller size class holds is
\* refused
cbor_read_unsigned_shortest_only(r, m) ==
  IF r.cbor_size = 0 THEN Result(r, CBOR_SIZE_NONE, Nothing)
  ELSE
    LET size == And8(Load(m, r.cbor), 31)
        r1 == [Touch(r, m, r.cbor) EXCEPT !.cbor = @ + 1, !.cbor_size = @ - 1]
        bytes_to_read == BytesToRead(size)
    IN
    IF size < CBOR_SIZE_1 THEN Result(r1, CBOR_SIZE_1, U64(size))
    ELSE IF bytes_to_read = 0 THEN Result(r1, CBOR_SIZE_NONE, Nothing)
    ELSE IF bytes_to_read > r1.cbor_size
    THEN Result(r1, CBOR_SIZE_NONE, Nothing)
    ELSE LET r2 == [r1 EXCEPT !.cbor_size = @ - bytes_to_read]
             a == ReadArgument(r2, m, U64(0), bytes_to_read)
         IN IF \/ bytes_to_read = 1 /\ a.out[8] < CBOR_SIZE_1
               \/ bytes_to_read > 1 /\
                    \A i \in (9 - bytes_to_read)..(8 - bytes_to_read \div 2) :
                      a.out[i] = 0
            THEN Result(ReaderOf(a), CBOR_SIZE_NONE, Nothing)
            ELSE Result(ReaderOf(a), size, a.out)

cbor_read_unsigned(r, m) ==
  IF r.cbor_size = 0 THEN Result(r, CBOR_SIZE_NONE, Nothing)
  ELSE
    LET size == And8(Load(m, r.cbor), 31)
        r1 == [Touch(r, m, r.cbor) EXCEPT !.cbor = @ + 1, !.cbor_size = @ - 1]
        bytes_to_read == BytesToRead(size)
    IN
    IF size < CBOR_SIZE_1 THEN Result(r1, CBOR_SIZE_1, U64(size))
    ELSE IF bytes_to_read = 0 THEN Result(r1, CBOR_SIZE_NONE, Nothing)
    ELSE IF bytes_to_read > r1.cbor_size
    THEN Result(r1, CBOR_SIZE_NONE, Nothing)
    ELSE LET r2 == [r1 EXCEPT !.cbor_size = @ - bytes_to_read]
             a == ReadArgument(r2, m, U64(0), bytes_to_read)
         IN Result(ReaderOf(a), size, a.out)

\* a bug: the pointer returned is taken after the cursor has moved
read_byte_or_text_string_returns_end(r, m) ==
  LET u == cbor_read_unsigned(r, m) IN
  IF u.ret = CBOR_SIZE_NONE
     \/ ULt(SIZE_MAX, u.out)
     \/ ULt(U64(u.cbor_size), u.out)
  THEN Result(ReaderOf(u), NULL, Nothing)
  ELSE LET size == ToNat(u.out) IN
       Result([ReaderOf(u) EXCEPT !.cbor = @ + size, !.cbor_size = @ - size],
              u.cbor + size, u.out)

\* a bug (or a feature): a string that does not fit is not consumed at all
read_byte_or_text_string_rewinds(r, m) ==
  LET u == cbor_read_unsigned(r, m) IN
  IF u.ret = CBOR_SIZE_NONE
     \/ ULt(SIZE_MAX, u.out)
     \/ ULt(U64(u.cbor_size), u.out)
  THEN Result(r, NULL, Nothing)
  ELSE LET size == ToNat(u.out) IN
       Result([ReaderOf(u) EXCEPT !.cbor = @ + size, !.cbor_size = @ - size],
              u.cbor, u.out)

\* a bug: the length announced is not compared with the bytes that remain
read_byte_or_text_string_trusts_length(r, m) ==
  LET u == cbor_read_unsigned(r, m) IN
  IF u.ret = CBOR_SIZE_NONE
     \/ ULt(SIZE_MAX, u.out)
  THEN Result(ReaderOf(u), NULL, Nothing)
  ELSE LET size == ToNat(u.out) IN
       Result([ReaderOf(u) EXCEPT !.cbor = @ + size, !.cbor_size = @ - size],
              u.cbor, u.out)

read_byte_or_text_string(r, m) ==
  LET u == cbor_read_unsigned(r, m) IN
  IF u.ret = CBOR_SIZE_NONE
     \/ ULt(SIZE_MAX, u.out)
     \/ ULt(U64(u.cbor_size), u.out)
  THEN Result(ReaderOf(u), NULL, Nothing)
  ELSE LET size == ToNat(u.out) IN
       Result([ReaderOf(u) EXCEPT !.cbor = @ + size, !.cbor_size = @ - size],
              u.cbor, u.out)

cbor_read_data(r, m) ==
  IF cbor_read_next(r, m).ret # CBOR_MAJOR_TYPE_BYTE_STRING
  THEN Result(r, NULL, Nothing)
  ELSE read_byte_or_text_string(r, m)

cbor_read_text(r, m) ==
  IF cbor_read_next(r, m).ret # CBOR_MAJOR_TYPE_TEXT_STRING
  THEN Result(r, NULL, Nothing)
  ELSE read_byte_or_text_string(r, m)

\* the size_t the call returns is out; SIZE_MAX is the error
read_array_or_map(r, m) ==
  LET u == cbor_read_unsigned(r, m) IN
  IF u.ret = CBOR_SIZE_NONE \/ ULe(SIZE_MAX, u.out)
  THEN Result(ReaderOf(u), 0, SIZE_MAX)
  ELSE Result(ReaderOf(u), 0, u.out)

\* a bug: the major type is not looked at
cbor_read_array_unchecked(r, m) == read_array_or_map(r, m)

cbor_read_array(r, m) ==
  IF cbor_read_next(r, m).ret # CBOR_MAJOR_TYPE_ARRAY
  THEN Result(r, 0, SIZE_MAX)
  ELSE read_array_or_map(r, m)

cbor_read_map(r, m) ==
  IF cbor_read_next(r, m).ret # CBOR_MAJOR_TYPE_MAP
  THEN Result(r, 0, SIZE_MAX)
  ELSE read_array_or_map(r, m)

\* a bug: only a byte of major type 7 is taken
cbor_read_simple_checks_type(r, m) ==
  IF r.cbor_size = 0 \/ Load(m, r.cbor) < CBOR_MAJOR_TYPE_SIMPLE
  THEN Result(r, CBOR_SIMPLE_VALUE_NONE, Nothing)
  ELSE Result([Touch(r, m, r.cbor) EXCEPT !.cbor = @ + 1, !.cbor_size = @ - 1],
              Load(m, r.cbor), Nothing)

\* a bug: the byte is returned and the cursor stays on it
cbor_read_simple_peeks(r, m) ==
  IF r.cbor_size = 0 THEN Result(r, CBOR_SIMPLE_VALUE_NONE, Nothing)
  ELSE Result(Touch(r, m, r.cbor), Load(m, r.cbor), Nothing)

cbor_read_simple(r, m) ==
  IF r.cbor_size = 0 THEN Result(r, CBOR_SIMPLE_VALUE_NONE, Nothing)
  ELSE Result([Touch(r, m, r.cbor) EXCEPT !.cbor = @ + 1, !.cbor_size = @ - 1],
              Load(m, r.cbor), Nothing)

(***************************************************************************)
(* The state: the writer's struct fields and the caller's buffer, the      *)
(* reader's struct fields, and the history of the session.                 *)
(***************************************************************************)
VARIABLES
  buffer,         \* cbor_writer_state_t.buffer: the cursor, NULL when poisoned
  buffer_size,    \* cbor_writer_state_t.buffer_size
  nesting_depth,  \* cbor_writer_state_t.nesting_depth
  objects,        \* cbor_writer_state_t.objects
  mem,            \* the bytes of the caller's buffer, by address
  poisoned,       \* history: an error branch of the writer was taken
  oob,            \* history: the writer stored outside the buffer
  cbor,           \* cbor_reader_state_t.cbor
  cbor_size,      \* cbor_reader_state_t.cbor_size
  stray,          \* history: the reader loaded from outside its input
  phase,          \* "write": a writer session, "read": a reader session
  call,           \* history: the last call, what it returned and the state before it
  items,          \* history: per nesting level, the items prepended so far
  marks,          \* history: per nesting level, the cursor when it was opened
  last,           \* history: the last call that changed the writer and succeeded
  fuel            \* the model's bound: how many more calls may change the writer

vars == <<buffer, buffer_size, nesting_depth, objects, mem, poisoned, oob,
          cbor, cbor_size, stray, phase, call, items, marks, last, fuel>>

writer_vars == <<buffer, buffer_size, nesting_depth, objects, mem, poisoned,
                 oob, items, marks, last, fuel>>

reader_vars == <<cbor, cbor_size, stray>>

\* the writer as a struct
Writer ==
  [buffer |-> buffer, buffer_size |-> buffer_size,
   nesting_depth |-> nesting_depth, objects |-> objects, mem |-> mem,
   poisoned |-> poisoned, oob |-> oob]

\* the reader as a struct
Reader == [cbor |-> cbor, cbor_size |-> cbor_size, oob |-> stray]

AllLevels == 0..CBOR_MAX_NESTING

\* no item yet: no byte expected on the wire, no call counted
Empty == [wire |-> <<>>, count |-> 0]

NoItems == [l \in AllLevels |-> Empty]
NoMarks == [l \in AllLevels |-> NULL]

NoLast == [op |-> "none", arg |-> Nothing]

NoCall ==
  [op |-> "none", ret |-> 0, out |-> Nothing, poisoned |-> FALSE,
   cbor |-> NULL, cbor_size |-> 0]

(***************************************************************************)
(* What RFC 8949 says an item looks like on the wire: the expected bytes   *)
(* the history records for every item, computed from the call's arguments  *)
(* alone.                                                                  *)
(***************************************************************************)
ExpectHead(major, v) ==
  IF SubSeq(v, 1, 7) = <<0, 0, 0, 0, 0, 0, 0>> /\ v[8] < 24
  THEN <<major + v[8]>>
  ELSE IF SubSeq(v, 1, 7) = <<0, 0, 0, 0, 0, 0, 0>> THEN <<major + 24, v[8]>>
  ELSE IF SubSeq(v, 1, 6) = <<0, 0, 0, 0, 0, 0>> THEN <<major + 25, v[7], v[8]>>
  ELSE IF SubSeq(v, 1, 4) = <<0, 0, 0, 0>> THEN <<major + 26>> \o SubSeq(v, 5, 8)
  ELSE <<major + 27>> \o v

\* one more item of a level: on the wire it comes before the items prepended
\* before it
Prepended(level, bytes) ==
  [wire |-> bytes \o level.wire, count |-> level.count + 1]

\* mem[from .. to - 1]
Bytes(m, from, to) == [i \in 1..(to - from) |-> m[from + i - 1]]

(***************************************************************************)
(* The writer's calls.                                                     *)
(***************************************************************************)
\* the model's bound on the counters: the innermost open container has room
Room ==
  IF nesting_depth = CBOR_MAX_NESTING THEN items[nesting_depth].count < MaxCount
  ELSE objects[nesting_depth] < MaxCount

\* the model's bound on the counters: the container around the innermost has room
ParentRoom ==
  IF nesting_depth + 1 >= CBOR_MAX_NESTING THEN TRUE
  ELSE objects[nesting_depth + 1] < MaxCount

Pushed(bytes) == [items EXCEPT ![nesting_depth] = Prepended(@, bytes)]

WriterCall(op, arg, s, ret, it, mk) ==
  /\ phase = "write"
  /\ fuel > 0
  /\ fuel' = fuel - 1
  /\ buffer' = s.buffer
  /\ buffer_size' = s.buffer_size
  /\ nesting_depth' = s.nesting_depth
  /\ objects' = s.objects
  /\ mem' = s.mem
  /\ poisoned' = s.poisoned
  /\ oob' = s.oob
  /\ items' = IF s.poisoned THEN NoItems ELSE it
  /\ marks' = IF s.poisoned THEN NoMarks ELSE mk
  /\ last' = IF s.poisoned THEN NoLast ELSE [op |-> op, arg |-> arg]
  /\ call' = [op |-> op, ret |-> ret, out |-> Nothing, poisoned |-> poisoned,
              cbor |-> NULL, cbor_size |-> 0]
  /\ UNCHANGED <<reader_vars, phase>>

PrependUnsigned(values) ==
  /\ Room
  /\ \E value \in values :
       WriterCall("cbor_prepend_unsigned", value,
                  cbor_prepend_unsigned(Writer, value), 0,
                  Pushed(ExpectHead(CBOR_MAJOR_TYPE_UNSIGNED, value)),
                  marks)

PrependData(strings) ==
  /\ Room
  /\ \E data \in strings :
       WriterCall("cbor_prepend_data", data, cbor_prepend_data(Writer, data), 0,
                  Pushed(ExpectHead(CBOR_MAJOR_TYPE_BYTE_STRING, U64(Len(data)))
                           \o data),
                  marks)

PrependText(strings) ==
  /\ Room
  /\ \E text \in strings :
       WriterCall("cbor_prepend_text", text, cbor_prepend_text(Writer, text), 0,
                  Pushed(ExpectHead(CBOR_MAJOR_TYPE_TEXT_STRING, U64(Len(text)))
                           \o text),
                  marks)

PrependObject(fragments) ==
  /\ Room
  /\ \E object \in fragments :
       WriterCall("cbor_prepend_object", object,
                  cbor_prepend_object(Writer, object), 0,
                  Pushed(object), marks)

WrapData(sizes) ==
  /\ Room
  /\ \E data_size \in sizes :
       WriterCall("cbor_wrap_data", data_size,
                  cbor_wrap_data(Writer, data_size), 0,
                  Pushed(ExpectHead(CBOR_MAJOR_TYPE_BYTE_STRING, data_size)),
                  marks)

PrependNull ==
  /\ Room
  /\ WriterCall("cbor_prepend_null", Nothing, cbor_prepend_null(Writer), 0,
                Pushed(<<CBOR_SIMPLE_VALUE_NULL>>), marks)

PrependUndefined ==
  /\ Room
  /\ WriterCall("cbor_prepend_undefined", Nothing,
                cbor_prepend_undefined(Writer), 0,
                Pushed(<<CBOR_SIMPLE_VALUE_UNDEFINED>>), marks)

PrependBool(booleans) ==
  /\ Room
  /\ \E boolean \in booleans :
       WriterCall("cbor_prepend_bool", <<boolean>>,
                  cbor_prepend_bool(Writer, boolean), 0,
                  Pushed(<<IF boolean = 0 THEN CBOR_SIMPLE_VALUE_FALSE
                           ELSE CBOR_SIMPLE_VALUE_TRUE>>),
                  marks)

Opened ==
  [items EXCEPT ![nesting_depth - 1] = Empty]

OpenArray ==
  LET s == cbor_open_array(Writer) IN
  WriterCall("cbor_open_array", Nothing, s, s.buffer, Opened,
             [marks EXCEPT ![nesting_depth - 1] = buffer])

OpenMap ==
  LET s == cbor_open_map(Writer) IN
  WriterCall("cbor_open_map", Nothing, s, s.buffer, Opened,
             [marks EXCEPT ![nesting_depth - 1] = buffer])

\* the closed container is one item of the level around it
Wrapped(major, count) ==
  [items EXCEPT
     ![nesting_depth] = Empty,
     ![nesting_depth + 1] =
        Prepended(@, ExpectHead(major, U64(count)) \o items[nesting_depth].wire)]

WrapArray ==
  /\ ParentRoom
  /\ LET s == cbor_wrap_array(Writer) IN
     WriterCall("cbor_wrap_array", U64(items[nesting_depth].count), s, s.buffer,
                Wrapped(CBOR_MAJOR_TYPE_ARRAY, items[nesting_depth].count),
                [marks EXCEPT ![nesting_depth] = NULL])

WrapMap ==
  /\ ParentRoom
  /\ LET s == cbor_wrap_map(Writer) IN
     WriterCall("cbor_wrap_map", U64(items[nesting_depth].count), s, s.buffer,
                Wrapped(CBOR_MAJOR_TYPE_MAP, items[nesting_depth].count \div 2),
                [marks EXCEPT ![nesting_depth] = NULL])

StopWriter ==
  /\ phase = "write"
  /\ call' = [op |-> "cbor_stop_writer", ret |-> cbor_stop_writer(Writer),
              out |-> Nothing, poisoned |-> poisoned, cbor |-> NULL,
              cbor_size |-> 0]
  /\ UNCHANGED <<writer_vars, reader_vars, phase>>

\* sizeof(buffer) of the caller
BufferLength == Cardinality(DOMAIN mem)

\* cbor_init_reader(&reader, cbor_start, sizeof(buffer) - (cbor_start - buffer))
\* after a cbor_stop_writer that returned cbor_start, as the test does
InitReader ==
  /\ phase = "write"
  /\ call.op = "cbor_stop_writer"
  /\ call.ret # NULL
  /\ LET r == cbor_init_reader(call.ret,
                               BufferLength - (call.ret - BufferAddress)) IN
     /\ cbor' = r.cbor
     /\ cbor_size' = r.cbor_size
     /\ stray' = r.oob
  /\ phase' = "read"
  /\ call' = [NoCall EXCEPT !.op = "cbor_init_reader"]
  /\ UNCHANGED writer_vars

(***************************************************************************)
(* The reader's calls.                                                     *)
(***************************************************************************)
ReaderCall(op, res) ==
  /\ phase = "read"
  /\ cbor' = res.cbor
  /\ cbor_size' = res.cbor_size
  /\ stray' = res.oob
  /\ call' = [op |-> op, ret |-> res.ret, out |-> res.out, poisoned |-> FALSE,
              cbor |-> cbor, cbor_size |-> cbor_size]
  /\ UNCHANGED <<writer_vars, phase>>

ReadNext == ReaderCall("cbor_read_next", cbor_read_next(Reader, mem))
StopReader == ReaderCall("cbor_stop_reader", cbor_stop_reader(Reader, mem))
ReadUnsigned == ReaderCall("cbor_read_unsigned", cbor_read_unsigned(Reader, mem))
ReadData == ReaderCall("cbor_read_data", cbor_read_data(Reader, mem))
ReadText == ReaderCall("cbor_read_text", cbor_read_text(Reader, mem))
ReadArray == ReaderCall("cbor_read_array", cbor_read_array(Reader, mem))
ReadMap == ReaderCall("cbor_read_map", cbor_read_map(Reader, mem))
ReadSimple == ReaderCall("cbor_read_simple", cbor_read_simple(Reader, mem))

ReaderNext ==
  \/ ReadNext
  \/ StopReader
  \/ ReadUnsigned
  \/ ReadData
  \/ ReadText
  \/ ReadArray
  \/ ReadMap
  \/ ReadSimple

InitWriter(sizes, calls) ==
  \E size \in sizes :
    LET s == cbor_init_writer(BufferAddress, size) IN
    /\ buffer = s.buffer
    /\ buffer_size = s.buffer_size
    /\ nesting_depth = s.nesting_depth
    /\ objects = s.objects
    /\ mem = s.mem
    /\ poisoned = s.poisoned
    /\ oob = s.oob
    /\ cbor = NULL
    /\ cbor_size = 0
    /\ stray = FALSE
    /\ phase = "write"
    /\ call = NoCall
    /\ items = NoItems
    /\ marks = [NoMarks EXCEPT ![CBOR_MAX_NESTING] = s.buffer]
    /\ last = NoLast
    /\ fuel = calls

(***************************************************************************)
(* Spec: a writer session of any calls, in any order, on a buffer of up to *)
(* MaxBuffer bytes.                                                        *)
(***************************************************************************)
Init == InitWriter(0..MaxBuffer, MaxCalls)

Next ==
  \/ PrependUnsigned({U64(1), U64(123)})
  \/ PrependData({<<>>, <<10>>})
  \/ PrependText({<<>>, <<97>>})
  \/ PrependObject({<<>>, <<1>>})
  \/ WrapData({U64(0), U64(1)})
  \/ PrependNull
  \/ PrependUndefined
  \/ PrependBool({0, 1})
  \/ OpenArray
  \/ OpenMap
  \/ WrapArray
  \/ WrapMap
  \/ StopWriter

Spec == Init /\ [][Next]_vars

(***************************************************************************)
(* SpecSession: a writer session of typed items and containers, as the     *)
(* test's, on a buffer of up to MaxSession bytes, and the reader session   *)
(* on its output.                                                          *)
(***************************************************************************)
InitSession == InitWriter(0..MaxSession, MaxCalls)

NextSession ==
  \/ PrependUnsigned({U64(1), U64(123)})
  \/ PrependData({<<10, 11, 12>>})
  \/ PrependBool({1})
  \/ OpenArray
  \/ OpenMap
  \/ WrapArray
  \/ WrapMap
  \/ StopWriter
  \/ InitReader
  \/ ReaderNext

SpecSession == InitSession /\ [][NextSession]_vars

(***************************************************************************)
(* SpecRoundTrip: one item is prepended to a buffer that is large enough,  *)
(* and read back.  The arguments cover every size class of the header.     *)
(***************************************************************************)
WideValues ==
  {U64(0), U64(1), U64(23), U64(24), U64(25), U64(123), U64(255), U64(256),
   U64(258), U64(65535), U64(65536), U64(16909060),
   <<0, 0, 0, 0, 128, 0, 0, 1>>, <<0, 0, 0, 0, 255, 255, 255, 255>>,
   <<0, 0, 0, 1, 0, 0, 0, 0>>, <<1, 2, 3, 4, 5, 6, 7, 8>>,
   <<128, 0, 0, 0, 0, 0, 0, 0>>, <<255, 255, 255, 255, 255, 255, 255, 254>>,
   <<255, 255, 255, 255, 255, 255, 255, 255>>}

String(n, k) == [i \in 1..n |-> (k * i + 7) % 256]

Strings == {String(n, k) : n \in {0, 1, 2, 3, 23, 24, MaxString}, k \in {1, 83}}

InitRoundTrip == InitWriter({MaxString + 9}, 1)

NextRoundTrip ==
  \/ PrependUnsigned(WideValues)
  \/ PrependData(Strings)
  \/ PrependText(Strings)
  \/ PrependNull
  \/ PrependUndefined
  \/ PrependBool({0, 1})
  \/ StopWriter
  \/ InitReader
  \/ ReaderNext

SpecRoundTrip == InitRoundTrip /\ [][NextRoundTrip]_vars

(***************************************************************************)
(* SpecReader: a reader session on any input of up to MaxInput bytes, well *)
(* formed or not.                                                          *)
(***************************************************************************)
\* initial bytes of every major type with immediate, 1-byte, 2-byte and
\* reserved arguments, and small argument bytes
InputBytes == {0, 1, 24, 65, 88, 95, 98, 128, 153, 161, 190, 192}

InitInput ==
  \E n \in 0..MaxInput :
    \E input \in [1..n -> InputBytes] :
      LET s == cbor_init_writer(BufferAddress, 0)
          r == cbor_init_reader(BufferAddress, n)
      IN
      /\ buffer = s.buffer
      /\ buffer_size = s.buffer_size
      /\ nesting_depth = s.nesting_depth
      /\ objects = s.objects
      /\ mem = [a \in BufferAddress..(BufferAddress + n - 1) |->
                  input[a - BufferAddress + 1]]
      /\ poisoned = s.poisoned
      /\ oob = s.oob
      /\ cbor = r.cbor
      /\ cbor_size = r.cbor_size
      /\ stray = r.oob
      /\ phase = "read"
      /\ call = [NoCall EXCEPT !.op = "cbor_init_reader"]
      /\ items = NoItems
      /\ marks = NoMarks
      /\ last = NoLast
      /\ fuel = 0

SpecReader == InitInput /\ [][ReaderNext]_vars

(***************************************************************************)
(* SpecNesting: a fresh writer on which containers are opened and none is  *)
(* wrapped, two calls further than the counter stack is deep.              *)
(***************************************************************************)
NestingCalls == CBOR_MAX_NESTING + 2

InitNesting == InitWriter(0..MaxSession, NestingCalls)

NextNesting ==
  \/ OpenArray
  \/ OpenMap
  \/ StopWriter

SpecNesting == InitNesting /\ [][NextNesting]_vars

(***************************************************************************)
(* SpecFit: a writer session of typed items and containers in which every  *)
(* call has one argument, so that the call tells the size of its item, on  *)
(* a buffer of up to MaxSession bytes.                                     *)
(***************************************************************************)
FitValue == U64(123)

FitData == <<10, 11, 12>>

FitText == <<97>>

InitFit == InitWriter(0..MaxSession, MaxCalls)

NextFit ==
  \/ PrependUnsigned({FitValue})
  \/ PrependData({FitData})
  \/ PrependText({FitText})
  \/ PrependBool({1})
  \/ OpenArray
  \/ OpenMap
  \/ WrapArray
  \/ WrapMap
  \/ StopWriter

SpecFit == InitFit /\ [][NextFit]_vars

(***************************************************************************)
(* SpecHeads: a reader session on an input of up to MaxInput bytes that    *)
(* begins with any byte at all.                                            *)
(***************************************************************************)
\* the bytes after the first: an argument or a length of 0 or 2, or the
\* unsigned 0 or 2
TailBytes == {0, 2}

InitHeads ==
  \E n \in 1..MaxInput :
    \E first \in Byte :
      \E tail \in [2..n -> TailBytes] :
        LET s == cbor_init_writer(BufferAddress, 0)
            r == cbor_init_reader(BufferAddress, n)
        IN
        /\ buffer = s.buffer
        /\ buffer_size = s.buffer_size
        /\ nesting_depth = s.nesting_depth
        /\ objects = s.objects
        /\ mem = [a \in BufferAddress..(BufferAddress + n - 1) |->
                    IF a = BufferAddress THEN first
                    ELSE tail[a - BufferAddress + 1]]
        /\ poisoned = s.poisoned
        /\ oob = s.oob
        /\ cbor = r.cbor
        /\ cbor_size = r.cbor_size
        /\ stray = r.oob
        /\ phase = "read"
        /\ call = [NoCall EXCEPT !.op = "cbor_init_reader"]
        /\ items = NoItems
        /\ marks = NoMarks
        /\ last = NoLast
        /\ fuel = 0

SpecHeads == InitHeads /\ [][ReaderNext]_vars

(***************************************************************************)
(* The readers on one head in every size class that holds its argument:    *)
(* the initial byte carries any of the eight major types, and the argument *)
(* is inline (0 bytes follow) or fills 1, 2, 4 or 8 bytes, most            *)
(* significant first, with leading zeros where the value is small.  last   *)
(* keeps the value the head was built from.                                *)
(***************************************************************************)
ArgumentSizes == {0, 1, 2, 4, 8}

Holds(k, v) ==
  IF k = 0 THEN SubSeq(v, 1, 7) = <<0, 0, 0, 0, 0, 0, 0>> /\ v[8] < CBOR_SIZE_1
  ELSE \A i \in 1..(8 - k) : v[i] = 0

InitialByte(major, k) ==
  major + CASE k = 1 -> CBOR_SIZE_1
            [] k = 2 -> CBOR_SIZE_2
            [] k = 4 -> CBOR_SIZE_4
            [] k = 8 -> CBOR_SIZE_8

InitWide ==
  \E v \in WideValues :
    \E k \in {a \in ArgumentSizes : Holds(a, v)} :
      \E major \in {32 * t : t \in 0..7} :
        LET s == cbor_init_writer(BufferAddress, 0)
            r == cbor_init_reader(BufferAddress, 1 + k)
            head == IF k = 0 THEN <<major + v[8]>>
                    ELSE <<InitialByte(major, k)>> \o SubSeq(v, 9 - k, 8)
        IN
        /\ buffer = s.buffer
        /\ buffer_size = s.buffer_size
        /\ nesting_depth = s.nesting_depth
        /\ objects = s.objects
        /\ mem = [a \in BufferAddress..(BufferAddress + k) |->
                    head[a - BufferAddress + 1]]
        /\ poisoned = s.poisoned
        /\ oob = s.oob
        /\ cbor = r.cbor
        /\ cbor_size = r.cbor_size
        /\ stray = r.oob
        /\ phase = "read"
        /\ call = [NoCall EXCEPT !.op = "cbor_init_reader"]
        /\ items = NoItems
        /\ marks = NoMarks
        /\ last = [NoLast EXCEPT !.arg = v]
        /\ fuel = 0

SpecWide == InitWide /\ [][ReaderNext]_vars

(***************************************************************************)
(* Sessions of arrays, the unsigned integer 1 and objects of no bytes.     *)
(***************************************************************************)
InitEmpty == InitWriter(0..MaxBuffer, MaxCalls)

NextEmpty ==
  \/ PrependObject({<<>>})
  \/ PrependUnsigned({U64(1)})
  \/ OpenArray
  \/ WrapArray
  \/ StopWriter

SpecEmpty == InitEmpty /\ [][NextEmpty]_vars

(***************************************************************************)
(* A decoding loop of a caller: it reads one item after the other, of the  *)
(* kinds its schema tells it, and stops at the first error value or when   *)
(* cbor_read_next returns CBOR_MAJOR_TYPE_NONE.  fuel starts at the length *)
(* of the input and goes down by one at each read that succeeds.           *)
(***************************************************************************)
DecodeBytes == {24, 65, 96, 129, 160, 245}

\* the error value of each reader function
Failed(op, res) ==
  CASE op = "cbor_read_unsigned" -> res.ret = CBOR_SIZE_NONE
    [] op \in {"cbor_read_data", "cbor_read_text"} -> res.ret = NULL
    [] op \in {"cbor_read_array", "cbor_read_map"} -> res.out = SIZE_MAX
    [] op = "cbor_read_simple" -> res.ret = CBOR_SIMPLE_VALUE_NONE

InitDecode ==
  \E n \in 0..MaxInput :
    \E input \in [1..n -> DecodeBytes] :
      LET s == cbor_init_writer(BufferAddress, 0)
          r == cbor_init_reader(BufferAddress, n)
      IN
      /\ buffer = s.buffer
      /\ buffer_size = s.buffer_size
      /\ nesting_depth = s.nesting_depth
      /\ objects = s.objects
      /\ mem = [a \in BufferAddress..(BufferAddress + n - 1) |->
                  input[a - BufferAddress + 1]]
      /\ poisoned = s.poisoned
      /\ oob = s.oob
      /\ cbor = r.cbor
      /\ cbor_size = r.cbor_size
      /\ stray = r.oob
      /\ phase = "read"
      /\ call = [NoCall EXCEPT !.op = "cbor_init_reader"]
      /\ items = NoItems
      /\ marks = NoMarks
      /\ last = NoLast
      /\ fuel = n

Decode(op, res) ==
  /\ phase = "read"
  /\ cbor' = res.cbor
  /\ cbor_size' = res.cbor_size
  /\ stray' = res.oob
  /\ call' = [op |-> op, ret |-> res.ret, out |-> res.out, poisoned |-> FALSE,
              cbor |-> cbor, cbor_size |-> cbor_size]
  /\ phase' = IF Failed(op, res) THEN "done" ELSE "read"
  /\ fuel' = IF Failed(op, res) THEN fuel ELSE fuel - 1
  /\ UNCHANGED <<buffer, buffer_size, nesting_depth, objects, mem, poisoned,
                 oob, items, marks, last>>

DecodeUnsigned == Decode("cbor_read_unsigned", cbor_read_unsigned(Reader, mem))
DecodeData == Decode("cbor_read_data", cbor_read_data(Reader, mem))
DecodeText == Decode("cbor_read_text", cbor_read_text(Reader, mem))
DecodeArray == Decode("cbor_read_array", cbor_read_array(Reader, mem))
DecodeMap == Decode("cbor_read_map", cbor_read_map(Reader, mem))
DecodeSimple == Decode("cbor_read_simple", cbor_read_simple(Reader, mem))

\* while(cbor_read_next(&state) != CBOR_MAJOR_TYPE_NONE): the loop is left
DecodeEnd ==
  LET res == cbor_read_next(Reader, mem) IN
  /\ phase = "read"
  /\ res.ret = CBOR_MAJOR_TYPE_NONE
  /\ call' = [op |-> "cbor_read_next", ret |-> res.ret, out |-> res.out,
              poisoned |-> FALSE, cbor |-> cbor, cbor_size |-> cbor_size]
  /\ phase' = "done"
  /\ UNCHANGED <<writer_vars, reader_vars>>

NextDecode ==
  \/ DecodeUnsigned
  \/ DecodeData
  \/ DecodeText
  \/ DecodeArray
  \/ DecodeMap
  \/ DecodeSimple
  \/ DecodeEnd

\* the caller keeps running its loop
SpecDecode == InitDecode /\ [][NextDecode]_vars /\ WF_vars(NextDecode)

(***************************************************************************)
(* The claims.                                                             *)
(***************************************************************************)
\* the cursor a level's items begin at: the writer's cursor for the innermost
\* open level, the mark of the level opened inside it for the others
LevelStart(l) == IF l = nesting_depth THEN buffer ELSE marks[l - 1]

\* C1: while no call has failed, the bytes between the cursor and the place
\* where the innermost open container was opened (and likewise for every
\* container around it) are the items prepended into it in the reverse of the
\* call order: each item lies before the ones prepended before it, and a
\* wrapped container lies there as its header followed by its items.
C1_ReverseOrder ==
  ~poisoned =>
    \A l \in nesting_depth..CBOR_MAX_NESTING :
      Bytes(mem, LevelStart(l), marks[l]) = items[l].wire

\* the test's session: open_array, prepend_unsigned(123),
\* prepend_data({0xA, 0xB, 0xC}), wrap_array gives 82 43 0A 0B 0C 18 7B
C1_Witness ==
  /\ ~poisoned
  /\ nesting_depth = CBOR_MAX_NESTING
  /\ last.op = "cbor_wrap_array"
  /\ last.arg = U64(2)
  /\ Bytes(mem, buffer, marks[CBOR_MAX_NESTING]) = <<130, 67, 10, 11, 12, 24, 123>>

\* C2: cbor_stop_writer returns the cursor, which is not NULL, if no container
\* is open and no call has failed, and NULL otherwise.
C2_StopWriter ==
  call.op = "cbor_stop_writer" =>
    IF nesting_depth = CBOR_MAX_NESTING /\ ~poisoned
    THEN /\ call.ret = buffer
         /\ call.ret # NULL
         /\ call.ret = BufferAddress + buffer_size
    ELSE call.ret = NULL

\* cbor_stop_writer has returned the first byte of an output
C2_Witness ==
  /\ call.op = "cbor_stop_writer"
  /\ call.ret # NULL
  /\ call.ret < BufferAddress + BufferLength
  /\ fuel < MaxCalls

\* C3: a poisoned writer has a NULL cursor, cbor_stop_writer returns NULL on
\* it, and no call turns a NULL cursor into another one.
C3_PoisonMonotone ==
  /\ [](poisoned => buffer = NULL /\ cbor_stop_writer(Writer) = NULL)
  /\ [][buffer = NULL => buffer' = NULL /\ poisoned']_vars

\* a call was made on a poisoned writer, which is still poisoned
C3_Witness ==
  /\ poisoned
  /\ call.poisoned
  /\ call.op \in {"cbor_open_array", "cbor_prepend_unsigned", "cbor_wrap_map"}
  /\ buffer = NULL

\* C4: when the last call of the writer session wrapped an array that k items
\* were prepended into, cbor_read_array on the output returns k; when it
\* wrapped a map that 2k items were prepended into, cbor_read_map returns k.
C4_ItemCount ==
  (phase = "read" /\ call.cbor = buffer) =>
    /\ (call.op = "cbor_read_array" /\ last.op = "cbor_wrap_array") =>
         call.out = last.arg
    /\ (call.op = "cbor_read_map" /\ last.op = "cbor_wrap_map") =>
         last.arg = U64(2 * ToNat(call.out))

\* cbor_read_array has returned 2 for an array of two items
C4_Witness ==
  /\ phase = "read"
  /\ call.cbor = buffer
  /\ call.op = "cbor_read_array"
  /\ last.op = "cbor_wrap_array"
  /\ last.arg = U64(2)
  /\ call.out = U64(2)

\* RFC 8949's shortest form: the size of the encoding of an unsigned v
ShortestSize(v) ==
  IF SubSeq(v, 1, 7) = <<0, 0, 0, 0, 0, 0, 0>> /\ v[8] < 24 THEN 1
  ELSE IF SubSeq(v, 1, 7) = <<0, 0, 0, 0, 0, 0, 0>> THEN 2
  ELSE IF SubSeq(v, 1, 6) = <<0, 0, 0, 0, 0, 0>> THEN 3
  ELSE IF SubSeq(v, 1, 4) = <<0, 0, 0, 0>> THEN 5
  ELSE 9

\* the bytes the writer has written
Emitted == BufferLength - buffer_size

\* C5: cbor_prepend_unsigned(v) into a large enough buffer emits 1, 2, 3, 5
\* or 9 bytes, the fewest v fits: the initial byte, then the argument in
\* big-endian order; cbor_read_unsigned on these bytes succeeds, yields v
\* and consumes them all.
C5_UnsignedRoundTrip ==
  last.op = "cbor_prepend_unsigned" =>
    LET v == last.arg
        n == ShortestSize(v)
    IN
    /\ Emitted = n
    /\ buffer = BufferAddress + BufferLength - n
    /\ mem[buffer] = (IF n = 1 THEN v[8] ELSE CASE n = 2 -> 24 [] n = 3 -> 25
                                                [] n = 5 -> 26 [] n = 9 -> 27)
    /\ Bytes(mem, buffer + 1, buffer + n) = SubSeq(v, 10 - n, 8)
    /\ (phase = "read" /\ call.op = "cbor_read_unsigned" /\ call.cbor = buffer) =>
         /\ call.ret # CBOR_SIZE_NONE
         /\ call.out = v
         /\ cbor = call.cbor + n
         /\ cbor_size = call.cbor_size - n

\* 16909060 = 0x01020304 was written as 1A 01 02 03 04 and read back
C5_Witness ==
  /\ last.op = "cbor_prepend_unsigned"
  /\ last.arg = U64(16909060)
  /\ phase = "read"
  /\ call.op = "cbor_read_unsigned"
  /\ call.cbor = buffer
  /\ call.out = <<0, 0, 0, 0, 1, 2, 3, 4>>
  /\ Bytes(mem, buffer, buffer + 5) = <<26, 1, 2, 3, 4>>

\* C6: a byte string of n bytes (n = 0 too) written by cbor_prepend_data into
\* a buffer large enough is read back by cbor_read_data: the call returns a
\* pointer into its input, reports n, and the n bytes there are the bytes
\* written; likewise cbor_prepend_text and cbor_read_text.
C6_StringRoundTrip ==
  (/\ phase = "read"
   /\ call.cbor = buffer
   /\ \/ call.op = "cbor_read_data" /\ last.op = "cbor_prepend_data"
      \/ call.op = "cbor_read_text" /\ last.op = "cbor_prepend_text") =>
    LET n == Len(last.arg) IN
    /\ call.ret # NULL
    /\ call.ret > call.cbor
    /\ call.ret + n <= call.cbor + call.cbor_size
    /\ call.out = U64(n)
    /\ Bytes(mem, call.ret, call.ret + n) = last.arg
    /\ cbor = call.ret + n

\* a byte string of 24 bytes, whose header takes two bytes, was read back
C6_Witness ==
  /\ phase = "read"
  /\ call.cbor = buffer
  /\ call.op = "cbor_read_data"
  /\ last.op = "cbor_prepend_data"
  /\ Len(last.arg) = 24
  /\ call.ret = call.cbor + 2
  /\ call.out = U64(24)

(***************************************************************************)
(* What a poisoned writer still does.                                      *)
(***************************************************************************)
PrependCalls ==
  {"cbor_prepend_unsigned", "cbor_prepend_data", "cbor_prepend_text",
   "cbor_prepend_object", "cbor_wrap_data"}

SimpleCalls == {"cbor_prepend_null", "cbor_prepend_undefined", "cbor_prepend_bool"}

OpenCalls == {"cbor_open_array", "cbor_open_map"}

WrapCalls == {"cbor_wrap_array", "cbor_wrap_map"}

\* the call of this step
Calls(ops) == phase = "write" /\ fuel' < fuel /\ call'.op \in ops

\* C7 as the specification states it: on a poisoned writer every prepend,
\* open, wrap or wrap_data call leaves the cursor, buffer_size, the nesting
\* depth and every item counter unchanged.
C7_PoisonedNoOp ==
  [][(poisoned /\ Calls(PrependCalls \cup SimpleCalls \cup OpenCalls \cup WrapCalls))
       => UNCHANGED <<buffer, buffer_size, nesting_depth, objects>>]_vars

\* C7, amended: on a poisoned writer every call leaves the cursor NULL and
\* buffer_size 0; wrap_array, wrap_map and the simple-value prepends leave
\* the depth and the counters unchanged too; prepend_unsigned, prepend_data,
\* prepend_text, prepend_object and wrap_data add one to the counter of the
\* innermost open container (if any) and nothing else; open_array and
\* open_map push a zero counter (depth - 1) unless the depth is 0.
C7_PoisonedEffect ==
  [][poisoned =>
       /\ buffer' = NULL /\ buffer_size = 0 /\ buffer_size' = 0 /\ poisoned'
       /\ Calls(WrapCalls \cup SimpleCalls) => UNCHANGED <<nesting_depth, objects>>
       /\ Calls(PrependCalls) =>
            /\ nesting_depth' = nesting_depth
            /\ objects' = IF nesting_depth = CBOR_MAX_NESTING THEN objects
                          ELSE [objects EXCEPT ![nesting_depth] = @ + 1]
       /\ Calls(OpenCalls) =>
            IF nesting_depth = 0 THEN UNCHANGED <<nesting_depth, objects>>
            ELSE /\ nesting_depth' = nesting_depth - 1
                 /\ objects' = [objects EXCEPT ![nesting_depth - 1] = 0]]_vars

\* a prepend_unsigned on a poisoned writer has counted a second item in the
\* open array
C7_Witness ==
  /\ poisoned
  /\ call.poisoned
  /\ call.op = "cbor_prepend_unsigned"
  /\ nesting_depth = CBOR_MAX_NESTING - 1
  /\ objects[nesting_depth] = 2

(***************************************************************************)
(* The head of the item at the reader's cursor, after RFC 8949.            *)
(***************************************************************************)
HeadMajor(b) == b - (b % 32)

HeadInfo(b) == b % 32

\* the bytes of argument that follow the initial byte
ArgumentBytes(b) ==
  CASE HeadInfo(b) = 24 -> 1
    [] HeadInfo(b) = 25 -> 2
    [] HeadInfo(b) = 26 -> 4
    [] HeadInfo(b) = 27 -> 8
    [] OTHER -> 0

\* the initial byte at c is none of the defined forms
Malformed(c, n) == n > 0 /\ HeadInfo(mem[c]) >= 28

\* the input ends inside the argument of the head at c
ArgumentCutOff(c, n) == n > 0 /\ ArgumentBytes(mem[c]) > n - 1

\* the argument of the complete head at c
HeadArgument(c) ==
  LET k == ArgumentBytes(mem[c]) IN
  IF k = 0 THEN U64(HeadInfo(mem[c]))
  ELSE [i \in 1..8 |-> IF i > 8 - k THEN mem[c + i - (8 - k)] ELSE 0]

\* the head at c is complete and announces more bytes than follow it
PayloadCutOff(c, n) ==
  /\ n > 0
  /\ ~Malformed(c, n)
  /\ ~ArgumentCutOff(c, n)
  /\ ULt(U64(n - 1 - ArgumentBytes(mem[c])), HeadArgument(c))

\* the major type a typed read requires
Required(op) ==
  CASE op = "cbor_read_data" -> CBOR_MAJOR_TYPE_BYTE_STRING
    [] op = "cbor_read_text" -> CBOR_MAJOR_TYPE_TEXT_STRING
    [] op = "cbor_read_array" -> CBOR_MAJOR_TYPE_ARRAY
    [] op = "cbor_read_map" -> CBOR_MAJOR_TYPE_MAP

StringReads == {"cbor_read_data", "cbor_read_text"}

CountReads == {"cbor_read_array", "cbor_read_map"}

\* the last call was a string read of a string of its type that is cut off
TruncatedString ==
  /\ phase = "read"
  /\ call.op \in StringReads
  /\ call.cbor_size > 0
  /\ HeadMajor(mem[call.cbor]) = Required(call.op)
  /\ ArgumentCutOff(call.cbor, call.cbor_size) \/ PayloadCutOff(call.cbor, call.cbor_size)

\* C8 as the specification states it: cbor_read_data or cbor_read_text on a
\* truncated string returns NULL and leaves the cursor and the remaining
\* byte count as they were.
C8_TruncationKeepsCursor ==
  TruncatedString =>
    call.ret = NULL /\ cbor = call.cbor /\ cbor_size = call.cbor_size

\* C8, amended: cbor_read_data or cbor_read_text on a truncated string
\* returns NULL and has consumed what it read of the header: the initial
\* byte alone when the argument bytes are cut off, the initial byte and the
\* argument bytes when the length is larger than the bytes remaining after
\* the header; no payload byte is consumed.
C8_TruncationConsumesHeader ==
  TruncatedString =>
    LET consumed == IF ArgumentCutOff(call.cbor, call.cbor_size) THEN 1
                    ELSE 1 + ArgumentBytes(mem[call.cbor])
    IN
    /\ call.ret = NULL
    /\ cbor = call.cbor + consumed
    /\ cbor_size = call.cbor_size - consumed

\* 58 01 at the end of the input: a byte string of one byte that is not
\* there; the read has consumed the two bytes of the header
C8_Witness ==
  /\ TruncatedString
  /\ call.op = "cbor_read_data"
  /\ mem[call.cbor] = 88
  /\ PayloadCutOff(call.cbor, call.cbor_size)
  /\ cbor = call.cbor + 2
  /\ cbor_size = 0

\* the last call was a typed read of an empty input or of another major type
Mismatched ==
  /\ phase = "read"
  /\ call.op \in StringReads \cup CountReads
  /\ IF call.cbor_size = 0 THEN TRUE
     ELSE HeadMajor(mem[call.cbor]) # Required(call.op)

\* the item at the cursor is of major type major and all there
WellFormed(major) ==
  /\ cbor_size > 0
  /\ HeadMajor(mem[cbor]) = major
  /\ ~Malformed(cbor, cbor_size)
  /\ ~ArgumentCutOff(cbor, cbor_size)
  /\ major \in {CBOR_MAJOR_TYPE_BYTE_STRING, CBOR_MAJOR_TYPE_TEXT_STRING}
       => ~PayloadCutOff(cbor, cbor_size)
  /\ major \in {CBOR_MAJOR_TYPE_ARRAY, CBOR_MAJOR_TYPE_MAP}
       => HeadArgument(cbor) # SIZE_MAX

\* C9: cbor_read_data, cbor_read_text, cbor_read_array or cbor_read_map on
\* an empty input or on an item of another major type returns its sentinel
\* (NULL, SIZE_MAX) and leaves the cursor and the remaining byte count as
\* they were; the typed read of the item's own kind that follows succeeds
\* when the item is well-formed and complete.
C9_MismatchKeepsCursor ==
  /\ [](Mismatched =>
          /\ call.op \in StringReads => call.ret = NULL
          /\ call.op \in CountReads => call.out = SIZE_MAX
          /\ cbor = call.cbor
          /\ cbor_size = call.cbor_size)
  /\ [][(Mismatched /\ \E op \in StringReads \cup CountReads :
                         call'.op = op /\ WellFormed(Required(op)))
          => /\ call'.op \in StringReads => call'.ret = cbor + 1 + ArgumentBytes(mem[cbor])
             /\ call'.op \in CountReads => call'.out = HeadArgument(cbor)
             /\ cbor' > cbor]_vars

\* cbor_read_data was refused on 80, an empty array, which is still at the
\* cursor
C9_Witness ==
  /\ Mismatched
  /\ call.op = "cbor_read_data"
  /\ call.ret = NULL
  /\ call.cbor_size > 0
  /\ mem[call.cbor] = 128
  /\ cbor = call.cbor
  /\ WellFormed(CBOR_MAJOR_TYPE_ARRAY)

\* the last call read a head that is malformed or whose argument is cut off
BrokenHead ==
  /\ phase = "read"
  /\ call.cbor_size > 0
  /\ \/ call.op = "cbor_read_unsigned"
     \/ call.op \in CountReads /\ HeadMajor(mem[call.cbor]) = Required(call.op)
  /\ Malformed(call.cbor, call.cbor_size) \/ ArgumentCutOff(call.cbor, call.cbor_size)

\* C10 as the specification states it: cbor_read_unsigned, cbor_read_array
\* or cbor_read_map failing on a malformed or truncated header leaves the
\* cursor at the initial byte and the remaining byte count as it was.
C10_BrokenHeadKeepsCursor ==
  BrokenHead => cbor = call.cbor /\ cbor_size = call.cbor_size

\* C10, amended: cbor_read_unsigned, cbor_read_array or cbor_read_map
\* failing on a malformed or truncated header returns its sentinel and has
\* consumed the initial byte: the cursor is one past it and the remaining
\* byte count one less.
C10_BrokenHeadConsumesInitialByte ==
  BrokenHead =>
    /\ call.op = "cbor_read_unsigned" => call.ret = CBOR_SIZE_NONE
    /\ call.op \in CountReads => call.out = SIZE_MAX
    /\ cbor = call.cbor + 1
    /\ cbor_size = call.cbor_size - 1

\* cbor_read_map met BE, a map head with the reserved value 30
C10_Witness ==
  /\ BrokenHead
  /\ call.op = "cbor_read_map"
  /\ mem[call.cbor] = 190
  /\ cbor = call.cbor + 1

(***************************************************************************)
(* Containers.                                                             *)
(***************************************************************************)
\* C11: cbor_wrap_map on a writer that has not failed, with a map open that
\* has received an odd number of items, returns NULL, writes nothing and
\* poisons the writer, so that cbor_stop_writer returns NULL; with 2k items
\* (and room for the header) it prepends a map header of argument k.
C11_MapParity ==
  [][(Calls({"cbor_wrap_map"}) /\ ~poisoned /\ nesting_depth # CBOR_MAX_NESTING) =>
       LET count == items[nesting_depth].count
           head == ExpectHead(CBOR_MAJOR_TYPE_MAP, U64(count \div 2))
       IN
       IF count % 2 = 1
       THEN /\ call'.ret = NULL
            /\ mem' = mem
            /\ poisoned' /\ buffer' = NULL /\ buffer_size' = 0
            /\ cbor_stop_writer(Writer)' = NULL
       ELSE IF Len(head) <= buffer_size
       THEN /\ call'.ret = buffer - Len(head)
            /\ buffer' = buffer - Len(head)
            /\ Bytes(mem', buffer', buffer) = head
            /\ nesting_depth' = nesting_depth + 1
            /\ ~poisoned'
       ELSE poisoned' /\ call'.ret = NULL]_vars

\* cbor_wrap_map failed on a map of one item
C11_Witness ==
  /\ call.op = "cbor_wrap_map"
  /\ ~call.poisoned
  /\ poisoned
  /\ call.ret = NULL
  /\ nesting_depth = CBOR_MAX_NESTING - 1
  /\ objects[nesting_depth] = 1

\* C13: cbor_wrap_array or cbor_wrap_map with no container open returns NULL
\* and poisons the writer, so that cbor_stop_writer returns NULL; the depth
\* never passes CBOR_MAX_NESTING, it goes up by one with every wrap that
\* succeeds and only then, and on a writer that has not failed it goes down
\* by one with every open that succeeds and only then: there are never more
\* successful wraps than successful opens.
C13_NestingUnderflow ==
  /\ [](nesting_depth \in 0..CBOR_MAX_NESTING)
  /\ [][(Calls(WrapCalls) /\ nesting_depth = CBOR_MAX_NESTING) =>
          /\ call'.ret = NULL
          /\ poisoned' /\ buffer' = NULL /\ buffer_size' = 0
          /\ nesting_depth' = nesting_depth
          /\ cbor_stop_writer(Writer)' = NULL]_vars
  /\ [][/\ (Calls(WrapCalls) /\ call'.ret # NULL) =>
             ~poisoned /\ nesting_depth' = nesting_depth + 1
        /\ nesting_depth' > nesting_depth =>
             Calls(WrapCalls) /\ call'.ret # NULL
        /\ (Calls(OpenCalls) /\ call'.ret # NULL) =>
             ~poisoned /\ nesting_depth' = nesting_depth - 1
        /\ (nesting_depth' < nesting_depth /\ ~poisoned) =>
             Calls(OpenCalls) /\ call'.ret # NULL]_vars

\* cbor_wrap_array was called on a writer that had not failed, with nothing
\* open
C13_Witness ==
  /\ call.op = "cbor_wrap_array"
  /\ ~call.poisoned
  /\ poisoned
  /\ call.ret = NULL
  /\ nesting_depth = CBOR_MAX_NESTING
  /\ fuel < MaxCalls - 2

\* C20: a cbor_wrap_array or cbor_wrap_map that succeeds adds exactly one to
\* the counter of the container around the closed one, however many items
\* the closed one held, and leaves the counters of all levels further out as
\* they were; a prepend changes no counter but that of the innermost open
\* container, to which it adds one when it succeeds.
C20_OneItemInParent ==
  [][/\ (Calls(WrapCalls) /\ call'.ret # NULL) =>
          /\ nesting_depth' = nesting_depth + 1
          /\ \A l \in Levels :
               /\ l = nesting_depth + 1 => objects'[l] = objects[l] + 1
               /\ l > nesting_depth + 1 => objects'[l] = objects[l]
     /\ (Calls(PrependCalls \cup SimpleCalls)) =>
          /\ nesting_depth' = nesting_depth
          /\ \A l \in Levels :
               /\ l # nesting_depth => objects'[l] = objects[l]
               /\ (l = nesting_depth /\ ~poisoned') => objects'[l] = objects[l] + 1]_vars

\* an empty array was closed inside an array inside an array: the middle one
\* has one item, the outer one none
C20_Witness ==
  /\ call.op = "cbor_wrap_array"
  /\ call.ret # NULL
  /\ last.arg = U64(0)
  /\ nesting_depth = CBOR_MAX_NESTING - 2
  /\ objects[CBOR_MAX_NESTING - 2] = 1
  /\ objects[CBOR_MAX_NESTING - 1] = 0

\* the opens made so far in a session of opens
Opens == NestingCalls - fuel

\* C12: on a fresh writer the first CBOR_MAX_NESTING calls of cbor_open_array
\* or cbor_open_map in a row succeed: each returns the cursor and pushes a
\* zero counter; the next one returns NULL and poisons the writer, and the
\* counters are as the last successful open left them.
C12_NestingBound ==
  IF Opens <= CBOR_MAX_NESTING
  THEN /\ ~poisoned
       /\ nesting_depth = CBOR_MAX_NESTING - Opens
       /\ \A l \in Levels :
            objects[l] = IF l >= nesting_depth THEN 0 ELSE Indeterminate
       /\ call.op \in OpenCalls =>
            call.ret = buffer /\ call.ret = BufferAddress + BufferLength
       /\ buffer_size = BufferLength
  ELSE /\ poisoned
       /\ buffer = NULL /\ buffer_size = 0
       /\ nesting_depth = 0
       /\ \A l \in Levels : objects[l] = 0
       /\ call.op \in OpenCalls => call.ret = NULL
       /\ cbor_stop_writer(Writer) = NULL

\* the open after CBOR_MAX_NESTING opens has failed
C12_Witness ==
  /\ Opens = CBOR_MAX_NESTING + 1
  /\ call.op = "cbor_open_map"
  /\ ~call.poisoned
  /\ poisoned
  /\ call.ret = NULL

(***************************************************************************)
(* The room a session takes.                                               *)
(***************************************************************************)
\* the bytes RFC 8949 gives the item of a call of SpecFit
Needed(op) ==
  CASE op = "cbor_prepend_unsigned" ->
         Len(ExpectHead(CBOR_MAJOR_TYPE_UNSIGNED, FitValue))
    [] op = "cbor_prepend_data" ->
         Len(ExpectHead(CBOR_MAJOR_TYPE_BYTE_STRING, U64(Len(FitData)))) + Len(FitData)
    [] op = "cbor_prepend_text" ->
         Len(ExpectHead(CBOR_MAJOR_TYPE_TEXT_STRING, U64(Len(FitText)))) + Len(FitText)
    [] op = "cbor_prepend_bool" -> 1
    [] op \in OpenCalls -> 0
    [] op = "cbor_wrap_array" ->
         Len(ExpectHead(CBOR_MAJOR_TYPE_ARRAY, U64(items[nesting_depth].count)))
    [] op = "cbor_wrap_map" ->
         Len(ExpectHead(CBOR_MAJOR_TYPE_MAP, U64(items[nesting_depth].count \div 2)))

FitCalls ==
  {"cbor_prepend_unsigned", "cbor_prepend_data", "cbor_prepend_text",
   "cbor_prepend_bool"} \cup OpenCalls \cup WrapCalls

\* the call of this step is one no buffer size makes succeed
Misuse ==
  \/ call'.op \in WrapCalls /\ nesting_depth = CBOR_MAX_NESTING
  \/ call'.op = "cbor_wrap_map" /\ items[nesting_depth].count % 2 = 1
  \/ call'.op \in OpenCalls /\ nesting_depth = 0

\* the encoded size of the session so far
RECURSIVE WireFrom(_)
WireFrom(l) ==
  IF l > CBOR_MAX_NESTING THEN 0 ELSE Len(items[l].wire) + WireFrom(l + 1)

TotalWire == WireFrom(0)

\* C14: a call of a writer session whose item fits in the bytes that remain
\* succeeds and takes exactly the size of its item, so that a balanced
\* session of typed prepends and open/wrap pairs of total size S on a buffer
\* of S bytes fails at no step; cbor_stop_writer then returns the cursor,
\* which is the base of the buffer, with buffer_size at 0.
C14_ExactFit ==
  /\ [](~poisoned => buffer # NULL /\ buffer = BufferAddress + buffer_size)
  /\ []((call.op = "cbor_stop_writer" /\ ~poisoned
         /\ nesting_depth = CBOR_MAX_NESTING /\ TotalWire = BufferLength) =>
          call.ret = BufferAddress /\ buffer_size = 0)
  /\ [][(Calls(FitCalls) /\ ~poisoned /\ ~Misuse
         /\ Needed(call'.op) <= buffer_size) =>
          /\ ~poisoned'
          /\ buffer_size' = buffer_size - Needed(call'.op)
          /\ buffer' = buffer - Needed(call'.op)]_vars

\* [h'0A0B0C', 123] takes 7 bytes and was written to a buffer of 7 bytes
C14_Witness ==
  /\ call.op = "cbor_stop_writer"
  /\ call.ret = BufferAddress
  /\ BufferLength = 7
  /\ buffer_size = 0
  /\ nesting_depth = CBOR_MAX_NESTING
  /\ last.op = "cbor_wrap_array"
  /\ last.arg = U64(2)
  /\ Bytes(mem, BufferAddress, BufferAddress + 7) = <<130, 67, 10, 11, 12, 24, 123>>

\* C15: a writer that has not failed has used exactly the encoded size of
\* its session so far, and a call whose item does not fit in the bytes that
\* remain poisons it, so that a session of total size S >= 1 on a buffer of
\* S - 1 bytes fails at some step and cbor_stop_writer returns NULL; no byte
\* is written outside the buffer.
C15_OffByOne ==
  /\ [](~oob)
  /\ [](~poisoned => TotalWire = BufferLength - buffer_size)
  /\ [](poisoned => cbor_stop_writer(Writer) = NULL)
  /\ [][(Calls(FitCalls) /\ ~poisoned /\ Needed(call'.op) > buffer_size) =>
          /\ poisoned'
          /\ buffer' = NULL /\ buffer_size' = 0
          /\ call'.op \in OpenCalls \cup WrapCalls => call'.ret = NULL
          /\ cbor_stop_writer(Writer)' = NULL]_vars

\* open_array; prepend_unsigned(123); wrap_array on a buffer of 2 bytes
C15_Witness ==
  /\ call.op = "cbor_wrap_array"
  /\ ~call.poisoned
  /\ poisoned
  /\ BufferLength = 2
  /\ nesting_depth = CBOR_MAX_NESTING - 1
  /\ objects[nesting_depth] = 1
  /\ mem[BufferAddress] = 24
  /\ mem[BufferAddress + 1] = 123

(***************************************************************************)
(* What the reader reports.                                                *)
(***************************************************************************)
\* the enumerators of cbor_major_type_t
MajorTypes ==
  {CBOR_MAJOR_TYPE_NONE, CBOR_MAJOR_TYPE_UNSIGNED, CBOR_MAJOR_TYPE_BYTE_STRING,
   CBOR_MAJOR_TYPE_TEXT_STRING, CBOR_MAJOR_TYPE_ARRAY, CBOR_MAJOR_TYPE_MAP,
   CBOR_MAJOR_TYPE_SIMPLE}

\* the last call was cbor_read_next on a tag, C0 to DF
PeekedTag ==
  /\ phase = "read"
  /\ call.op = "cbor_read_next"
  /\ call.cbor_size > 0
  /\ mem[call.cbor] \in 192..223

\* C16 as the specification states it: cbor_read_next reports
\* CBOR_MAJOR_TYPE_NONE for an item whose initial byte is a tag.
C16_TagIsNone == PeekedTag => call.ret = CBOR_MAJOR_TYPE_NONE

\* C16, amended: for an item whose initial byte is a tag cbor_read_next
\* reports C0, the top three bits of the byte, which is none of the
\* enumerators of cbor_major_type_t, CBOR_MAJOR_TYPE_NONE among them.
C16_TagIsReported ==
  PeekedTag => call.ret = 192 /\ call.ret \notin MajorTypes

\* cbor_read_next on D8, a tag with one byte of argument
C16_Witness ==
  /\ PeekedTag
  /\ mem[call.cbor] = 216
  /\ call.ret = 192
  /\ call.cbor_size = 2

\* C17: cbor_read_next leaves the cursor and the remaining byte count as they
\* were; it returns CBOR_MAJOR_TYPE_NONE when no byte remains and the top
\* three bits of the next byte otherwise; the call that follows any number
\* of them starts from the state the first one found.
C17_PurePeek ==
  /\ []((phase = "read" /\ call.op = "cbor_read_next") =>
          /\ cbor = call.cbor
          /\ cbor_size = call.cbor_size
          /\ ~stray
          /\ call.ret = IF call.cbor_size = 0 THEN CBOR_MAJOR_TYPE_NONE
                        ELSE HeadMajor(mem[call.cbor]))
  /\ [][(phase = "read" /\ call.op = "cbor_read_next") =>
          call'.cbor = call.cbor /\ call'.cbor_size = call.cbor_size]_vars

\* cbor_read_next saw the text string 62 00 02 and left it where it was
C17_Witness ==
  /\ phase = "read"
  /\ call.op = "cbor_read_next"
  /\ call.ret = CBOR_MAJOR_TYPE_TEXT_STRING
  /\ call.cbor_size = 3
  /\ mem[call.cbor] = 98
  /\ cbor = call.cbor
  /\ cbor_size = 3

\* the last call was a cbor_read_unsigned that succeeded
ReadHeader ==
  /\ phase = "read"
  /\ call.op = "cbor_read_unsigned"
  /\ call.ret # CBOR_SIZE_NONE

\* C18 as the specification states it: the value cbor_read_unsigned returns
\* for an inline argument is a class of its own, none of those of 1, 2, 4 or
\* 8 trailing bytes.
C18_ImmediateClass ==
  (ReadHeader /\ cbor = call.cbor + 1) =>
    call.ret \notin {CBOR_SIZE_1, CBOR_SIZE_2, CBOR_SIZE_4, CBOR_SIZE_8}

\* C18, amended: cbor_read_unsigned returns CBOR_SIZE_1 both for an inline
\* argument (no trailing bytes) and for 1 trailing byte, and CBOR_SIZE_2,
\* CBOR_SIZE_4 or CBOR_SIZE_8 for 2, 4 or 8 trailing bytes: the value does
\* not tell a 1-byte encoding from a 2-byte encoding.
C18_SizeClass ==
  ReadHeader =>
    LET consumed == cbor - call.cbor IN
    /\ consumed \in {1, 2, 3, 5, 9}
    /\ consumed = 1 + ArgumentBytes(mem[call.cbor])
    /\ call.ret = CASE consumed = 1 -> CBOR_SIZE_1
                    [] consumed = 2 -> CBOR_SIZE_1
                    [] consumed = 3 -> CBOR_SIZE_2
                    [] consumed = 5 -> CBOR_SIZE_4
                    [] consumed = 9 -> CBOR_SIZE_8

\* 23 was written as 17 and read back as of size CBOR_SIZE_1
C18_Witness ==
  /\ ReadHeader
  /\ last.op = "cbor_prepend_unsigned"
  /\ last.arg = U64(23)
  /\ call.cbor = buffer
  /\ cbor = call.cbor + 1
  /\ call.ret = CBOR_SIZE_1
  /\ call.out = U64(23)

\* C19: on an initial byte whose low five bits are 28, 29, 30 or 31,
\* whatever its major type and whatever follows it, cbor_read_unsigned
\* returns CBOR_SIZE_NONE, cbor_read_data and cbor_read_text return NULL,
\* cbor_read_array and cbor_read_map return SIZE_MAX.
C19_ReservedSize ==
  (phase = "read" /\ call.cbor_size > 0 /\ HeadInfo(mem[call.cbor]) \in 28..31) =>
    /\ call.op = "cbor_read_unsigned" => call.ret = CBOR_SIZE_NONE
    /\ call.op \in StringReads => call.ret = NULL
    /\ call.op \in CountReads => call.out = SIZE_MAX

\* cbor_read_array on 9D 00 00, an array head with the reserved value 29
C19_Witness ==
  /\ phase = "read"
  /\ call.op = "cbor_read_array"
  /\ call.cbor_size = 3
  /\ mem[call.cbor] = 157
  /\ call.out = SIZE_MAX

(***************************************************************************)
(* The top level.                                                          *)
(***************************************************************************)
TypedPrepends ==
  {"cbor_prepend_unsigned", "cbor_prepend_data", "cbor_prepend_text",
   "cbor_prepend_bool"}

\* C21: with no container open, a prepend whose item fits changes no counter
\* and does not poison, and cbor_stop_writer then returns the cursor, which
\* is not NULL and is the first byte of the item just prepended; on a fresh
\* writer, with nothing prepended, it returns the end of the buffer.
C21_TopLevelItems ==
  /\ []((~poisoned /\ nesting_depth = CBOR_MAX_NESTING) =>
          /\ cbor_stop_writer(Writer) = buffer
          /\ buffer # NULL
          /\ buffer = BufferAddress + BufferLength - TotalWire
          /\ call.op = "cbor_stop_writer" => call.ret = buffer)
  /\ [][(Calls(TypedPrepends) /\ ~poisoned /\ nesting_depth = CBOR_MAX_NESTING
         /\ Needed(call'.op) <= buffer_size) =>
          /\ ~poisoned'
          /\ objects' = objects
          /\ nesting_depth' = CBOR_MAX_NESTING
          /\ buffer' = buffer - Needed(call'.op)
          /\ Bytes(mem', buffer', buffer) \o items[CBOR_MAX_NESTING].wire
               = items'[CBOR_MAX_NESTING].wire
          /\ cbor_stop_writer(Writer)' = buffer']_vars

\* two items at the top level, 18 7B and then F5 before it: cbor_stop_writer
\* returned the address of F5
C21_Witness ==
  /\ call.op = "cbor_stop_writer"
  /\ call.ret = buffer
  /\ ~poisoned
  /\ items[CBOR_MAX_NESTING].count = 2
  /\ \A l \in Levels : objects[l] = Indeterminate
  /\ BufferLength = buffer_size + 3
  /\ Bytes(mem, buffer, buffer + 3) = <<245, 24, 123>>

(***************************************************************************)
(* Simple values.                                                          *)
(***************************************************************************)
\* C22: cbor_read_simple on a non-empty input consumes exactly one byte and
\* returns the value of that byte, whatever the byte is; on an empty input it
\* returns CBOR_SIMPLE_VALUE_NONE and leaves the reader as it was.  The byte
\* written by cbor_prepend_bool reads back as 0xF4 (false) or 0xF5 (true),
\* the one of cbor_prepend_null as 0xF6 and the one of cbor_prepend_undefined
\* as 0xF7.
C22_ReadSimple ==
  (phase = "read" /\ call.op = "cbor_read_simple") =>
    /\ ~stray
    /\ IF call.cbor_size = 0
       THEN /\ call.ret = CBOR_SIMPLE_VALUE_NONE
            /\ cbor = call.cbor
            /\ cbor_size = 0
       ELSE /\ call.ret = mem[call.cbor]
            /\ call.ret \in Byte
            /\ cbor = call.cbor + 1
            /\ cbor_size = call.cbor_size - 1
            /\ call.cbor = buffer =>
                 /\ last.op = "cbor_prepend_bool" =>
                      call.ret = IF last.arg = <<0>> THEN 244 ELSE 245
                 /\ last.op = "cbor_prepend_null" => call.ret = 246
                 /\ last.op = "cbor_prepend_undefined" => call.ret = 247

\* the head 0x58 of a byte string of 24 bytes was read as a simple value
C22_Witness ==
  /\ phase = "read"
  /\ call.op = "cbor_read_simple"
  /\ call.cbor = buffer
  /\ last.op = "cbor_prepend_data"
  /\ call.ret = 88
  /\ cbor = call.cbor + 1

(***************************************************************************)
(* Encodings that are not the shortest.                                    *)
(***************************************************************************)
\* C23: cbor_read_unsigned on a complete head succeeds, returns the value the
\* head carries and consumes the initial byte and the 0, 1, 2, 4 or 8 bytes
\* of argument, in whichever of the size classes wide enough for the value it
\* was encoded (5 as 05, 18 05, 19 00 05, 1A 00 00 00 05 or
\* 1B 00 00 00 00 00 00 00 05) and whatever major type the top three bits of
\* the initial byte carry.
C23_AnySizeClass ==
  (phase = "read" /\ call.op = "cbor_read_unsigned"
   /\ call.cbor = BufferAddress) =>
    LET k == BufferLength - 1 IN
    /\ call.ret = CASE k = 0 -> 24 [] k = 1 -> 24 [] k = 2 -> 25
                    [] k = 4 -> 26 [] k = 8 -> 27
    /\ call.out = last.arg
    /\ call.out = HeadArgument(call.cbor)
    /\ cbor = call.cbor + 1 + k
    /\ cbor_size = 0
    /\ ~stray

\* 1 was read from the nine bytes 5B 00 00 00 00 00 00 00 01, a head of major
\* type 2
C23_Witness ==
  /\ phase = "read"
  /\ call.op = "cbor_read_unsigned"
  /\ call.cbor = BufferAddress
  /\ BufferLength = 9
  /\ mem[BufferAddress] = 91
  /\ call.ret = CBOR_SIZE_8
  /\ call.out = U64(1)
  /\ cbor = BufferAddress + 9

(***************************************************************************)
(* One increment for each item.                                            *)
(***************************************************************************)
\* C24: a byte string formed by cbor_prepend_object of n bytes followed by
\* cbor_wrap_data(n) is one item of the container it is written in: the
\* cbor_wrap_data adds nothing to the one increment of cbor_prepend_object,
\* and an array that is the one item of its session and holds the byte string
\* 41 01 and nothing else is wrapped with the head 0x81, which announces 1
\* element.
C24_OneIncrementPerItem ==
  /\ [][(/\ Calls({"cbor_wrap_data"})
         /\ ~poisoned /\ ~poisoned'
         /\ nesting_depth < CBOR_MAX_NESTING
         /\ last.op = "cbor_prepend_object"
         /\ last.arg # <<>>
         /\ last'.arg = U64(Len(last.arg))) =>
          objects'[nesting_depth] = objects[nesting_depth]]_vars
  /\ []((/\ ~poisoned
         /\ last.op = "cbor_wrap_array"
         /\ nesting_depth = CBOR_MAX_NESTING
         /\ fuel = MaxCalls - 4
         /\ items[CBOR_MAX_NESTING].count = 1
         /\ BufferLength = buffer_size + 3
         /\ Bytes(mem, buffer + 1, buffer + 3) = <<65, 1>>) =>
          mem[buffer] = 129)

(***************************************************************************)
(* The invariants of the writer and of the reader.                         *)
(***************************************************************************)
\* C25: in every state of a writer initialised on a buffer of BufferLength
\* bytes at BufferAddress, either the writer is poisoned, with the cursor NULL
\* and buffer_size 0, or the cursor lies between the base and the end of the
\* buffer and buffer_size is the distance from the base to the cursor; no
\* byte outside the buffer has been written.
C25_WriterCursor ==
  /\ ~oob
  /\ DOMAIN mem = BufferAddress..(BufferAddress + BufferLength - 1)
  /\ poisoned <=> buffer = NULL
  /\ IF poisoned THEN buffer = NULL /\ buffer_size = 0
     ELSE /\ BufferAddress <= buffer
          /\ buffer <= BufferAddress + BufferLength
          /\ buffer - BufferAddress = buffer_size
          /\ \A a \in BufferAddress..(buffer - 1) : mem[a] = Indeterminate

\* the array 81 01 stands in the upper two bytes of a buffer of three, the
\* cursor one byte above the base
C25_Witness ==
  /\ ~poisoned
  /\ BufferLength = 3
  /\ buffer = BufferAddress + 1
  /\ buffer_size = 1
  /\ last.op = "cbor_wrap_array"
  /\ Bytes(mem, buffer, buffer + 2) = <<129, 1>>

\* the step changes the counter stack in the slot l alone, a slot it has
CounterAt(l) ==
  /\ l \in Levels
  /\ objects' = [objects EXCEPT ![l] = objects'[l]]

\* every change of the counter stack is at the slot of the innermost open
\* container, of the one just opened or of the one around the one just closed
CounterStack ==
  /\ [](DOMAIN objects = Levels)
  /\ [][objects' # objects =>
          \/ Calls(PrependCalls \cup SimpleCalls \cup {"cbor_prepend_object",
                                                       "cbor_wrap_data"})
             /\ CounterAt(nesting_depth)
          \/ Calls(OpenCalls) /\ CounterAt(nesting_depth - 1)
          \/ Calls(WrapCalls) /\ CounterAt(nesting_depth + 1)]_vars

DepthSteps ==
  [][/\ (Calls(OpenCalls) /\ call'.ret # NULL) =>
          nesting_depth' = nesting_depth - 1
     /\ (Calls(WrapCalls) /\ call'.ret # NULL) =>
          nesting_depth' = nesting_depth + 1]_vars

\* C26 as stated: 0 <= nesting_depth <= CBOR_MAX_NESTING in every state; a
\* successful open takes it down by 1, a successful wrap takes it up by 1,
\* and no other operation changes it; the counter stack is read and written
\* at indexes 0..CBOR_MAX_NESTING - 1 alone.
C26_NestingDepth ==
  /\ [](nesting_depth \in 0..CBOR_MAX_NESTING)
  /\ DepthSteps
  /\ [][nesting_depth' # nesting_depth =>
          \/ Calls(OpenCalls) /\ call'.ret # NULL
          \/ Calls(WrapCalls) /\ call'.ret # NULL]_vars
  /\ CounterStack

\* C26, amended: 0 <= nesting_depth <= CBOR_MAX_NESTING in every state; a
\* successful open takes it down by 1, a successful wrap takes it up by 1, an
\* open on a poisoned writer with nesting_depth above 0 takes it down by 1
\* although it returns NULL, and no other operation changes it; the counter
\* stack is read and written at indexes 0..CBOR_MAX_NESTING - 1 alone.
C26_NestingDepthPoisonedOpen ==
  /\ [](nesting_depth \in 0..CBOR_MAX_NESTING)
  /\ DepthSteps
  /\ [][(Calls(OpenCalls) /\ poisoned /\ nesting_depth > 0) =>
          call'.ret = NULL /\ nesting_depth' = nesting_depth - 1]_vars
  /\ [][nesting_depth' # nesting_depth =>
          \/ Calls(OpenCalls) /\ call'.ret # NULL
          \/ Calls(WrapCalls) /\ call'.ret # NULL
          \/ Calls(OpenCalls) /\ poisoned /\ nesting_depth > 0]_vars
  /\ CounterStack

\* cbor_open_map on a poisoned writer returned NULL and left two containers
\* open where one was
C26_Witness ==
  /\ call.op = "cbor_open_map"
  /\ call.poisoned
  /\ call.ret = NULL
  /\ nesting_depth = CBOR_MAX_NESTING - 2
  /\ objects[CBOR_MAX_NESTING - 2] = 0

\* C27: after cbor_init_reader on the BufferLength bytes at BufferAddress and
\* any sequence of reader calls on any bytes, the cursor plus the count of
\* remaining bytes is the end of the input; the count never goes below 0 and
\* never goes up; no byte outside the input has been read; and
\* cbor_stop_reader returns the start of the input plus the number of bytes
\* consumed.
C27_ReaderBounds ==
  /\ [](phase = "read" =>
          /\ cbor + cbor_size = BufferAddress + BufferLength
          /\ cbor_size \in 0..BufferLength
          /\ ~stray
          /\ call.op = "cbor_stop_reader" =>
               /\ call.ret = BufferAddress + (BufferLength - cbor_size)
               /\ cbor = call.cbor /\ cbor_size = call.cbor_size)
  /\ [][phase = "read" => cbor_size' <= cbor_size /\ cbor' >= cbor]_vars

\* cbor_stop_reader after the head 58 02 of a byte string cut short was
\* consumed: two bytes on from the start, one byte left
C27_Witness ==
  /\ phase = "read"
  /\ call.op = "cbor_stop_reader"
  /\ BufferLength = 3
  /\ mem[BufferAddress] = 88
  /\ call.ret = BufferAddress + 2
  /\ cbor_size = 1

(***************************************************************************)
(* Containers have no kind.                                                *)
(***************************************************************************)
\* C28: cbor_open_map and cbor_open_array have the same effect on the writer
\* and return the same value, so the writer keeps no trace of the kind of an
\* open container: cbor_wrap_array on any open container writes an array head
\* (major type 4) with the count of its items, and cbor_wrap_map on any open
\* container writes a map head (major type 5) with half the count, or poisons
\* when the count is odd; in particular a container just opened by
\* cbor_open_map is closed by cbor_wrap_array as the empty array 0x80 and one
\* just opened by cbor_open_array is closed by cbor_wrap_map as the empty map
\* 0xA0.
C28_UntypedContainers ==
  /\ [][Calls(OpenCalls) =>
          IF nesting_depth = 0
          THEN /\ call'.ret = NULL
               /\ poisoned' /\ buffer' = NULL /\ buffer_size' = 0
               /\ UNCHANGED <<nesting_depth, objects, mem>>
          ELSE /\ call'.ret = buffer
               /\ UNCHANGED <<buffer, buffer_size, mem, poisoned>>
               /\ nesting_depth' = nesting_depth - 1
               /\ objects' = [objects EXCEPT ![nesting_depth - 1] = 0]]_vars
  /\ [][(Calls(WrapCalls) /\ ~poisoned /\ nesting_depth # CBOR_MAX_NESTING) =>
          LET count == items[nesting_depth].count
              array == call'.op = "cbor_wrap_array"
              head == IF array
                      THEN ExpectHead(CBOR_MAJOR_TYPE_ARRAY, U64(count))
                      ELSE ExpectHead(CBOR_MAJOR_TYPE_MAP, U64(count \div 2))
          IN
          /\ objects[nesting_depth] = count
          /\ IF ~array /\ count % 2 = 1 THEN poisoned' /\ call'.ret = NULL
             ELSE IF Len(head) > buffer_size THEN poisoned' /\ call'.ret = NULL
             ELSE /\ ~poisoned'
                  /\ call'.ret = buffer - Len(head)
                  /\ Bytes(mem', buffer', buffer) = head
                  /\ HeadMajor(mem'[buffer']) = IF array THEN 128 ELSE 160]_vars
  /\ [][(Calls(WrapCalls) /\ ~poisoned /\ buffer_size > 0) =>
          /\ (last.op = "cbor_open_map" /\ call'.op = "cbor_wrap_array") =>
               ~poisoned' /\ mem'[buffer'] = 128
          /\ (last.op = "cbor_open_array" /\ call'.op = "cbor_wrap_map") =>
               ~poisoned' /\ mem'[buffer'] = 160]_vars

\* cbor_open_map has opened a second container after 18 7B was prepended in
\* the first
C28_Witness ==
  /\ call.op = "cbor_open_map"
  /\ ~poisoned
  /\ call.ret = buffer
  /\ nesting_depth = CBOR_MAX_NESTING - 2
  /\ objects[nesting_depth] = 0
  /\ objects[nesting_depth + 1] = 1
  /\ BufferLength >= buffer_size + 2
  /\ Bytes(mem, buffer, buffer + 2) = <<24, 123>>

(***************************************************************************)
(* cbor_stop_writer keeps nothing.                                         *)
(***************************************************************************)
\* C29: cbor_stop_writer changes nothing in the writer and returns NULL while
\* a container is open, the cursor otherwise, so that the call repeated at
\* once returns the same value; a NULL it returned on a writer that is not
\* poisoned, for the open containers alone, is not kept: once the last open
\* container is wrapped with success, cbor_stop_writer returns the cursor,
\* which is not NULL.
C29_StopNotLatched ==
  /\ [][(phase = "write" /\ call'.op = "cbor_stop_writer" /\ fuel' = fuel) =>
          /\ UNCHANGED <<buffer, buffer_size, nesting_depth, objects, mem,
                         poisoned>>
          /\ call'.ret = IF nesting_depth = CBOR_MAX_NESTING THEN buffer
                         ELSE NULL]_vars
  /\ []((phase = "write" /\ call.op = "cbor_stop_writer") =>
          /\ call.ret = IF nesting_depth = CBOR_MAX_NESTING THEN buffer ELSE NULL
          /\ cbor_stop_writer(Writer) = call.ret)
  /\ [][(/\ call.op = "cbor_stop_writer" /\ call.ret = NULL /\ ~poisoned
         /\ Calls(WrapCalls) /\ call'.ret # NULL) =>
          /\ ~poisoned'
          /\ cbor_stop_writer(Writer)' =
               IF nesting_depth = CBOR_MAX_NESTING - 1 THEN buffer' ELSE NULL
          /\ buffer' # NULL]_vars

\* cbor_stop_writer returned NULL on a writer that is not poisoned, with one
\* array of one item open
C29_Witness ==
  /\ phase = "write"
  /\ call.op = "cbor_stop_writer"
  /\ call.ret = NULL
  /\ ~poisoned
  /\ buffer # NULL
  /\ nesting_depth = CBOR_MAX_NESTING - 1
  /\ objects[nesting_depth] = 1

(***************************************************************************)
(* Objects of no bytes.                                                    *)
(***************************************************************************)
\* the bytes of the innermost open container are items 01 and nothing else
OnlyOnes == \A a \in buffer..(marks[nesting_depth] - 1) : mem[a] = 1

\* C30: cbor_prepend_object of an object of 0 bytes writes nothing, leaves
\* the cursor, buffer_size and the poison as they are, whatever the free
\* space, and adds 1 to the counter of the innermost open container; the head
\* that cbor_wrap_array then writes carries the counter, so for a container
\* of items 01 it announces as many elements more than are encoded as there
\* were objects of 0 bytes, at least one more when the last call before the
\* wrap was such a cbor_prepend_object.
C30_EmptyObject ==
  /\ [][Calls({"cbor_prepend_object"}) =>
          /\ UNCHANGED <<buffer, buffer_size, mem, poisoned, oob,
                         nesting_depth>>
          /\ call'.poisoned = poisoned'
          /\ objects' = IF nesting_depth = CBOR_MAX_NESTING THEN objects
                        ELSE [objects EXCEPT ![nesting_depth] = @ + 1]]_vars
  /\ [][(Calls({"cbor_wrap_array"}) /\ ~poisoned /\ ~poisoned'
         /\ nesting_depth # CBOR_MAX_NESTING /\ OnlyOnes) =>
          LET encoded == marks[nesting_depth] - buffer
              announced == HeadInfo(mem'[buffer'])
          IN
          /\ buffer' = buffer - 1
          /\ HeadMajor(mem'[buffer']) = 128
          /\ announced = objects[nesting_depth]
          /\ announced - encoded
               = items[nesting_depth].count - Len(items[nesting_depth].wire)
          /\ announced >= encoded
          /\ last.op = "cbor_prepend_object" => announced >= encoded + 1]_vars

\* the whole output is the head 0x81 of an array of one element, with no
\* element after it, in a buffer of one byte
C30_Witness ==
  /\ ~poisoned
  /\ last.op = "cbor_wrap_array"
  /\ last.arg = U64(1)
  /\ nesting_depth = CBOR_MAX_NESTING
  /\ BufferLength = 1
  /\ buffer_size = 0
  /\ mem[buffer] = 129

(***************************************************************************)
(* The readers make progress.                                              *)
(***************************************************************************)
\* the call c returned something else than the error value of its function
NonError(c) ==
  \/ c.op = "cbor_read_unsigned" /\ c.ret \in {24, 25, 26, 27}
  \/ c.op \in StringReads /\ c.ret # NULL
  \/ c.op \in CountReads /\ c.out # <<255, 255, 255, 255, 255, 255, 255, 255>>
  \/ c.op = "cbor_read_simple" /\ c.ret \in Byte

\* C31: a call of cbor_read_unsigned, cbor_read_data, cbor_read_text,
\* cbor_read_array, cbor_read_map or cbor_read_simple that returns no error
\* takes the count of remaining bytes down by at least 1; so the reads that
\* have succeeded on an input of n bytes are never more than the bytes
\* consumed, hence never more than n, and a decoding loop that stops at the
\* first error value or when cbor_read_next returns CBOR_MAJOR_TYPE_NONE
\* comes to its end.
C31_ReaderProgress ==
  /\ [][(phase = "read" /\ call' # call /\ NonError(call')) =>
          /\ cbor_size' <= cbor_size - 1
          /\ cbor_size' >= 0
          /\ phase' = "read"]_vars
  /\ [][(phase = "read" /\ phase' = "read") => NonError(call')]_vars
  /\ [](/\ BufferLength - fuel <= BufferLength - cbor_size
        /\ BufferLength - fuel <= BufferLength
        /\ fuel >= 0)
  /\ <>(phase = "done")

\* three reads have succeeded on an input of three bytes and the loop has
\* ended on cbor_read_next returning CBOR_MAJOR_TYPE_NONE
C31_Witness ==
  /\ phase = "done"
  /\ call.op = "cbor_read_next"
  /\ BufferLength = 3
  /\ fuel = 0
  /\ cbor_size = 0

====
